---- MODULE Spec2Model ----
(***************************************************************************)
(* State-machine model of the keyword clustering and opportunity scoring   *)
(* core of the SEO agent: KeywordClusterer (modules/keyword_clustering.py),*)
(* CompetitorAuditor._calculate_opportunity (modules/competitor_audit.py), *)
(* OpportunityTracker.identify_weekly_opportunities                        *)
(* (modules/opportunity_tracker.py) and preprocess_text                    *)
(* (utils/data_processing.py).                                             *)
(*                                                                         *)
(* Python strings are TLA+ strings; a character is a string of length 1.   *)
(* A DataFrame is a sequence of rows, a row a function from the names of   *)
(* its columns to values.  Calls into scikit-learn, networkx, spaCy and    *)
(* sentence-transformers are choices over the results their contracts      *)
(* allow.                                                                  *)
(***************************************************************************)
EXTENDS Integers, Sequences, FiniteSets, TLC

(***************************************************************************)
(* Python str primitives                                                   *)
(***************************************************************************)
Char(s, i) == SubSeq(s, i, i)

Rest(s, i) == SubSeq(s, i, Len(s))

StartsWithAt(s, i, p) ==
    /\ i + Len(p) - 1 <= Len(s)
    /\ SubSeq(s, i, i + Len(p) - 1) = p

\* Python `m in s` for strings
Contains(s, m) ==
    \E i \in 1..(Len(s) - Len(m) + 1) : SubSeq(s, i, i + Len(m) - 1) = m

UpperCase == "ABCDEFGHIJKLMNOPQRSTUVWXYZ"

LowerCase == "abcdefghijklmnopqrstuvwxyz"

LowerChar(c) ==
    IF \E i \in 1..Len(UpperCase) : Char(UpperCase, i) = c
    THEN Char(LowerCase, CHOOSE i \in 1..Len(UpperCase) : Char(UpperCase, i) = c)
    ELSE c

RECURSIVE lower(_)
lower(s) == IF s = "" THEN "" ELSE LowerChar(Char(s, 1)) \o lower(Rest(s, 2))

IsSpace(c) == c \in {" ", "\t", "\n"}

\* string.punctuation (the backquote, which a TLA+ string cannot hold, is
\* the one character left out)
punctuation ==
    {"!", "\"", "#", "$", "%", "&", "'", "(", ")", "*", "+", ",", "-", ".",
     "/", ":", ";", "<", "=", ">", "?", "@", "[", "\\", "]", "^", "_",
     "{", "|", "}", "~"}

\* str.split(): the maximal runs of non-whitespace characters, in order
RECURSIVE SplitFrom(_, _, _)
SplitFrom(s, i, cur) ==
    IF i > Len(s)
    THEN IF cur = "" THEN << >> ELSE << cur >>
    ELSE IF IsSpace(Char(s, i))
         THEN (IF cur = "" THEN << >> ELSE << cur >>) \o SplitFrom(s, i + 1, "")
         ELSE SplitFrom(s, i + 1, cur \o Char(s, i))

split(s) == SplitFrom(s, 1, "")

\* ' '.join(words)
RECURSIVE join(_)
join(words) ==
    IF Len(words) = 0 THEN ""
    ELSE IF Len(words) = 1 THEN words[1]
    ELSE words[1] \o " " \o join(Tail(words))

(***************************************************************************)
(* utils/data_processing.py: preprocess_text                               *)
(***************************************************************************)
\* index of the last character of the run of non-whitespace starting at i
\* (i - 1 when there is none): the extent of \S+
RECURSIVE NonSpaceRunEnd(_, _)
NonSpaceRunEnd(s, i) ==
    IF i > Len(s) \/ IsSpace(Char(s, i)) THEN i - 1 ELSE NonSpaceRunEnd(s, i + 1)

\* length of the scheme prefix of r'https?://\S+|www\.\S+' matching at i, or 0
UrlPrefixLen(s, i) ==
    IF StartsWithAt(s, i, "http://") THEN 7
    ELSE IF StartsWithAt(s, i, "https://") THEN 8
    ELSE IF StartsWithAt(s, i, "www.") THEN 4
    ELSE 0

\* re.sub(r'https?://\S+|www\.\S+', '', text)
RECURSIVE RemoveUrlsFrom(_, _)
RemoveUrlsFrom(s, i) ==
    IF i > Len(s) THEN ""
    ELSE LET p == UrlPrefixLen(s, i)
             j == NonSpaceRunEnd(s, i + p)
         IN  IF p > 0 /\ j >= i + p
             THEN RemoveUrlsFrom(s, j + 1)
             ELSE Char(s, i) \o RemoveUrlsFrom(s, i + 1)

\* position of the first '>' at or after i with no newline before it, or 0
RECURSIVE TagClose(_, _)
TagClose(s, i) ==
    IF i > Len(s) \/ Char(s, i) = "\n" THEN 0
    ELSE IF Char(s, i) = ">" THEN i
    ELSE TagClose(s, i + 1)

\* re.sub(r'<.*?>', '', text)
RECURSIVE RemoveTagsFrom(_, _)
RemoveTagsFrom(s, i) ==
    IF i > Len(s) THEN ""
    ELSE IF Char(s, i) = "<" /\ TagClose(s, i + 1) > 0
         THEN RemoveTagsFrom(s, TagClose(s, i + 1) + 1)
         ELSE Char(s, i) \o RemoveTagsFrom(s, i + 1)

\* RemovePunctuation leaving the text as it is
KeepPunctuation(s) == s

\* text.translate(str.maketrans('', '', string.punctuation))
RECURSIVE RemovePunctuation(_)
RemovePunctuation(s) ==
    IF s = "" THEN ""
    ELSE (IF Char(s, 1) \in punctuation THEN "" ELSE Char(s, 1))
         \o RemovePunctuation(Rest(s, 2))

\* re.sub(r'\s+', ' ', text).strip()
CollapseWhitespace(s) == join(split(s))

\* Python's None where a string may stand (a DataFrame cell, a text): a
\* value comparable with strings; no text of the model is this string
None == "None"

\* an optional argument or attribute whose value is not a string: absent
\* (Python None) or present with a value
NoneOpt == [some |-> FALSE]

Some(v) == [some |-> TRUE, value |-> v]

preprocess_text(text) ==
    IF text = None \/ text = "" THEN ""
    ELSE CollapseWhitespace(
             RemovePunctuation(
                 RemoveTagsFrom(
                     RemoveUrlsFrom(lower(text), 1), 1)))

(***************************************************************************)
(* modules/keyword_clustering.py: KeywordClusterer                         *)
(***************************************************************************)
VARIABLES
    user_profiles,    \* self.user_profiles: NoneOpt or Some(list of names)
    nlp,              \* self.nlp is loaded (spaCy model available)
    sentence_model,   \* self.sentence_model is loaded
    similarity,       \* spaCy's keyword-to-marker similarity, per profile, in tenths
    keywords,         \* the keyword texts of the batch, as the data provider gave them
    keywords_df,      \* the caller's DataFrame, which cluster_keywords works on in place
    call,             \* the arguments of the cluster_keywords call, NoneOpt before it
    outcome,          \* "none" before the call, then "returned" or the exception raised
    log,              \* what self.logger has been given, in order
    classified,       \* the last direct call of _detect_intent or _assign_user_profile
    competitors,      \* CompetitorAuditor.competitors
    scored,           \* the last scoring call, with its arguments and its result
    top_keywords,     \* the last get_top_keywords_by_cluster call, NoneOpt before it
    normalized,       \* a text followed by the results of preprocess_text applied in turn
    gap,              \* the last analyze_content_gap call, NoneOpt before it
    rankings_file,    \* keyword_rankings.csv: NoneOpt while absent, else Some(rows)
    today,            \* the day datetime.now() falls on, counted from the first
    tracked,          \* the last track_keyword_rankings call, NoneOpt before it
    volatility,       \* the last check_serp_volatility call, NoneOpt before it
    serp_cache,       \* SerpAnalysisClient.cache, the dict as the sequence of its items
    serp_issued,      \* the lookups get_serp has issued, in order
    serp_call,        \* the last get_serp call, NoneOpt before it
    executor,         \* the thread pool of get_top_content: its tasks and their futures
    top_content,      \* what get_top_content returned, NoneOpt before it
    fetched,          \* the last fetch_keywords call, NoneOpt before it
    requested,        \* the number of clusters last asked of KMeans, NoneOpt before
    results           \* what the cluster_keywords calls on keywords_df returned, in order

Range(f) == {f[i] : i \in DOMAIN f}

Min(S) == CHOOSE m \in S : \A o \in S : m <= o

\* the intents dict with its keys in alphabetical order
intents_sorted ==
    << [intent |-> "commercial",
        markers |-> <<"best", "top", "review", "compare", "vs", "versus">>],
       [intent |-> "informational",
        markers |-> <<"what", "how", "why", "guide", "tutorial", "tips", "learn">>],
       [intent |-> "navigational",
        markers |-> <<"login", "sign in", "website", "official", "download">>],
       [intent |-> "transactional",
        markers |-> <<"buy", "price", "deal", "discount", "purchase", "free", "trial">>] >>

\* the intents dict of _detect_intent, in insertion order
intents ==
    << [intent |-> "informational",
        markers |-> <<"what", "how", "why", "guide", "tutorial", "tips", "learn">>],
       [intent |-> "navigational",
        markers |-> <<"login", "sign in", "website", "official", "download">>],
       [intent |-> "commercial",
        markers |-> <<"best", "top", "review", "compare", "vs", "versus">>],
       [intent |-> "transactional",
        markers |-> <<"buy", "price", "deal", "discount", "purchase", "free", "trial">>] >>

question_words == {"what", "how", "why", "when", "where", "who"}

\* KeywordClusterer._detect_intent
_detect_intent(keyword) ==
    LET keyword_lower == lower(keyword)
        matching == {i \in 1..Len(intents) :
                        \E m \in Range(intents[i].markers) : Contains(keyword_lower, m)}
    IN  IF matching # {}
        THEN intents[Min(matching)].intent
        ELSE IF nlp /\ \E token \in Range(split(keyword_lower)) : token \in question_words
             THEN "informational"
             ELSE "informational"

\* the profile_keywords dict of _assign_user_profile, in insertion order
profile_keywords ==
    << [profile |-> "recruiter",
        markers |-> <<"recruiter", "recruiting", "talent sourcing", "headhunter",
                      "talent acquisition">>],
       [profile |-> "talent_acquisition",
        markers |-> <<"talent acquisition", "hiring manager", "recruitment strategy",
                      "talent pipeline">>],
       [profile |-> "hr_manager",
        markers |-> <<"hr", "human resources", "people operations", "employee",
                      "workforce">>],
       [profile |-> "candidate",
        markers |-> <<"job seeker", "candidate", "job application", "interview",
                      "resume", "cv">>] >>

\* the similarity threshold 0.3 of _assign_user_profile, in tenths
SimilarityThreshold == 3

\* `not self.user_profiles`
NoProfiles(up) == ~up.some \/ Len(up.value) = 0

\* sum(marker in keyword_lower for marker in markers), in tenths
MarkerScore(keyword_lower, markers) ==
    10 * Cardinality({j \in 1..Len(markers) : Contains(keyword_lower, markers[j])})

\* the entries of the table whose profile is in self.user_profiles, in table
\* order: the keys of profile_scores in insertion order
ScoredProfiles(up) ==
    SelectSeq(profile_keywords, LAMBDA e : e.profile \in Range(up.value))

\* FirstMax returning the last entry that has the highest score
LastMax(scores) ==
    scores[CHOOSE i \in 1..Len(scores) :
              /\ \A j \in 1..Len(scores) : scores[j].score <= scores[i].score
              /\ \A j \in (i + 1)..Len(scores) : scores[j].score < scores[i].score]

\* max(profile_scores.items(), key=lambda x: x[1]): the first entry, in
\* insertion order, that has the highest score
FirstMax(scores) ==
    scores[Min({i \in 1..Len(scores) :
                   \A j \in 1..Len(scores) : scores[j].score <= scores[i].score})]

\* KeywordClusterer._assign_user_profile; sim[p] is the value of
\* max(keyword_doc.similarity(self.nlp(marker)) for marker in markers) for p
_assign_user_profile(keyword, sim) ==
    IF NoProfiles(user_profiles) THEN None
    ELSE
    LET keyword_lower == lower(keyword)
        listed == ScoredProfiles(user_profiles)
        counted == [i \in 1..Len(listed) |->
                       [profile |-> listed[i].profile,
                        score |-> MarkerScore(keyword_lower, listed[i].markers)]]
        no_signal == \A i \in 1..Len(counted) : counted[i].score <= 0
        profile_scores ==
            IF no_signal /\ nlp
            THEN [i \in 1..Len(listed) |->
                     [profile |-> listed[i].profile, score |-> sim[listed[i].profile]]]
            ELSE counted
    IN  IF Len(profile_scores) > 0 /\ FirstMax(profile_scores).score > SimilarityThreshold
        THEN FirstMax(profile_scores).profile
        ELSE "general"

(***************************************************************************)
(* DataFrame and library primitives used by cluster_keywords               *)
(***************************************************************************)
\* keywords_df[col] = vals
SetCol(df, col, vals) ==
    [i \in 1..Len(df) |->
        [c \in (DOMAIN df[i]) \cup {col} |-> IF c = col THEN vals[i] ELSE df[i][c]]]

Columns(df) == IF Len(df) = 0 THEN {} ELSE DOMAIN df[1]

\* the printable ASCII characters in code-point order (without the backquote)
Ascii ==
    " !\"#$%&'()*+,-./0123456789:;<=>?@ABCDEFGHIJKLMNOPQRSTUVWXYZ[\\]^_abcdefghijklmnopqrstuvwxyz{|}~"

Ord(c) == CHOOSE i \in 1..Len(Ascii) : Char(Ascii, i) = c

\* a < b for Python strings
RECURSIVE StrLess(_, _)
StrLess(a, b) ==
    IF b = "" THEN FALSE
    ELSE IF a = "" THEN TRUE
    ELSE IF Char(a, 1) = Char(b, 1) THEN StrLess(Rest(a, 2), Rest(b, 2))
    ELSE Ord(Char(a, 1)) < Ord(Char(b, 1))

Count(seq, v) == Cardinality({i \in 1..Len(seq) : seq[i] = v})

\* Series.mode(): the most frequent values, None dropped, sorted
Mode(values) ==
    LET present == Range(values) \ {None}
    IN  {v \in present : \A w \in present : Count(values, w) <= Count(values, v)}

\* Series.mode()[0] where the mode is not empty
FirstMode(values) ==
    CHOOSE v \in Mode(values) : \A w \in Mode(values) : w = v \/ StrLess(v, w)

\* the distinct values of a sequence in order of first appearance
\* (Series.unique(), and the index order value_counts starts from)
RECURSIVE Unique(_)
Unique(seq) ==
    IF Len(seq) = 0 THEN << >>
    ELSE LET init == Unique(SubSeq(seq, 1, Len(seq) - 1))
             last == seq[Len(seq)]
         IN  IF last \in Range(init) THEN init ELSE Append(init, last)

\* pd.Series(words).value_counts().head(k).index.tolist(): by descending
\* count, equal counts in order of first appearance
RECURSIVE HeadByCount(_, _, _)
HeadByCount(words, cands, k) ==
    IF k = 0 \/ Len(cands) = 0 THEN << >>
    ELSE LET best == Min({i \in 1..Len(cands) :
                             \A j \in 1..Len(cands) :
                                 Count(words, cands[j]) <= Count(words, cands[i])})
         IN  << cands[best] >>
             \o HeadByCount(words,
                            SubSeq(cands, 1, best - 1) \o SubSeq(cands, best + 1, Len(cands)),
                            k - 1)

\* np.random.randint(low, high, size=n): the arrays it can return; numpy
\* raises ValueError when low >= high
RandInt(low, high, n) ==
    IF low >= high THEN {} ELSE [1..n -> low..(high - 1)]

\* the ids used by a label array, the sentinel aside
UsedIds(labels) == Range(labels) \ {-1}

\* ids 0..m-1, each used
Dense(labels) == UsedIds(labels) = 0..(Cardinality(UsedIds(labels)) - 1)

\* TfidfVectorizer's default token_pattern (?u)\b\w\w+\b on a preprocessed
\* text: the words of two or more characters
TfidfTokens(text) == {w \in Range(split(text)) : Len(w) >= 2}

\* KMeans(n_clusters=k, random_state=42).fit_predict(embeddings) on n
\* samples: a label in 0..k-1 per sample; scikit-learn raises unless
\* 1 <= k <= n
KMeansLabels(k, n) ==
    IF k >= 1 /\ k <= n THEN [1..n -> 0..(k - 1)] ELSE {}

\* DBSCAN parameters of cluster_keywords
min_samples == 5

\* DBSCAN for which a pair of samples is enough for a cluster
DBSCANLabelsOfPairs(n) ==
    {l \in [1..n -> -1..(n - 1)] :
        /\ Dense(l)
        /\ (UsedIds(l) # {} => Cardinality({i \in 1..n : l[i] = 0}) >= 2)}

\* DBSCAN(eps=0.3, min_samples=5).fit_predict(embeddings) on n samples:
\* noise is -1 and clusters are numbered 0..m-1 as their first core sample
\* is met; the first cluster takes the whole neighbourhood of its core
\* sample, min_samples samples or more (the sample itself included)
DBSCANLabels(n) ==
    {l \in [1..n -> -1..(n - 1)] :
        /\ Dense(l)
        /\ (UsedIds(l) # {} => Cardinality({i \in 1..n : l[i] = 0}) >= min_samples)}

\* CommunityLabels with the communities numbered from 1
CommunityLabelsFromOne(n) ==
    {l \in [1..n -> 1..n] :
        /\ Range(l) = 1..Cardinality(Range(l))
        /\ \A a, b \in Range(l) :
              a < b => Cardinality({i \in 1..n : l[i] = b})
                         <= Cardinality({i \in 1..n : l[i] = a})}

\* clusters[node] = i over enumerate(greedy_modularity_communities(G)): the
\* communities partition the nodes, are non-empty, and come largest first
CommunityLabels(n) ==
    {l \in [1..n -> 0..(n - 1)] :
        /\ Dense(l)
        /\ \A a, b \in UsedIds(l) :
              a < b => Cardinality({i \in 1..n : l[i] = b})
                         <= Cardinality({i \in 1..n : l[i] = a})}

(***************************************************************************)
(* KeywordClusterer.cluster_keywords                                       *)
(***************************************************************************)
Col(df, col) == [i \in 1..Len(df) |-> df[i][col]]

\* _create_embeddings raises: TfidfVectorizer.fit_transform raises
\* ValueError (empty vocabulary) when no document has a token; whether
\* SentenceTransformer.encode raises is up to the library
EmbeddingRaises(processed) ==
    IF sentence_model THEN BOOLEAN
    ELSE {\A i \in 1..Len(processed) : TfidfTokens(processed[i]) = {}}

\* the estimate with min and max exchanged
EstimateClustersSwapped(n) ==
    LET q == n \div 10
        lo == IF q < 3 THEN q ELSE 3
    IN  IF lo > 10 THEN lo ELSE 10

\* n_clusters = min(max(3, len(keywords_df) // 10), 10)
EstimateClusters(n) ==
    LET q == n \div 10
        lo == IF q > 3 THEN q ELSE 3
    IN  IF lo < 10 THEN lo ELSE 10

\* lines 187-189: the n_clusters given to KMeans for a batch of n keywords
RequestedClusters(n_clusters, n) ==
    IF n_clusters.some THEN n_clusters.value ELSE EstimateClusters(n)

\* the members of a cluster, as row numbers in row order
Members(df, cluster_id) == {i \in 1..Len(df) : df[i].cluster = cluster_id}

MemberCol(df, cluster_id, col) ==
    LET rows == SelectSeq([i \in 1..Len(df) |-> i],
                          LAMBDA i : i \in Members(df, cluster_id))
    IN  [j \in 1..Len(rows) |-> df[rows[j]][col]]

\* Series.mode()[0] raises KeyError when the mode is empty
ModeRaises(values) == Mode(values) = {}

\* ClusterLabel with the group of one labelled by its processed keyword
ClusterLabelProcessed(df, cluster_id) ==
    LET cluster_keywords == MemberCol(df, cluster_id, "keyword")
    IN  IF cluster_id = -1 THEN "Unclustered"
        ELSE IF Len(cluster_keywords) = 1
             THEN MemberCol(df, cluster_id, "processed_keyword")[1]
        ELSE LET cluster_intent == FirstMode(MemberCol(df, cluster_id, "intent"))
                 cluster_profile == FirstMode(MemberCol(df, cluster_id, "user_profile"))
                 all_words == split(lower(join(cluster_keywords)))
                 top_words == HeadByCount(all_words, Unique(all_words), 3)
             IN  join(top_words) \o " (" \o cluster_intent \o ", "
                     \o cluster_profile \o ")"

\* the label of one cluster id (lines 247-268); the caller has checked
\* that the modes exist
ClusterLabel(df, cluster_id) ==
    LET cluster_keywords == MemberCol(df, cluster_id, "keyword")
    IN  IF cluster_id = -1 THEN "Unclustered"
        ELSE IF Len(cluster_keywords) = 1 THEN cluster_keywords[1]
        ELSE LET cluster_intent == FirstMode(MemberCol(df, cluster_id, "intent"))
                 cluster_profile == FirstMode(MemberCol(df, cluster_id, "user_profile"))
                 all_words == split(lower(join(cluster_keywords)))
                 top_words == HeadByCount(all_words, Unique(all_words), 3)
             IN  join(top_words) \o " (" \o cluster_intent \o ", "
                     \o cluster_profile \o ")"

\* the label loop raises: some cluster that reaches the two mode()[0] lines
\* has no mode of intent or of user_profile
LabelsRaise(df) ==
    \E cluster_id \in Range(Col(df, "cluster")) :
        /\ cluster_id # -1
        /\ Cardinality(Members(df, cluster_id)) # 1
        /\ \/ ModeRaises(MemberCol(df, cluster_id, "intent"))
           \/ ModeRaises(MemberCol(df, cluster_id, "user_profile"))

\* lines 180-181 and 241-242: the intent and user_profile columns, which
\* depend on the keyword column alone
Enrich(df) ==
    LET kws == Col(df, "keyword")
    IN  SetCol(SetCol(df,
            "intent", [i \in 1..Len(df) |-> _detect_intent(kws[i])]),
            "user_profile",
                [i \in 1..Len(df) |-> _assign_user_profile(kws[i], similarity)])

\* lines 237-272 of cluster_keywords: the columns added once `clusters` is
\* known, and the result; enriched is Enrich of the DataFrame
Finish(enriched, clusters, logged) ==
    LET df_p == SetCol(enriched, "cluster", clusters)
    IN  IF LabelsRaise(df_p)
        THEN [df |-> df_p, outcome |-> "KeyError", log |-> logged]
        ELSE [df |-> SetCol(df_p, "cluster_label",
                            [i \in 1..Len(df_p) |-> ClusterLabel(df_p, clusters[i])]),
              outcome |-> "returned", log |-> logged]

\* lines 176-183: the mock clustering used when the embeddings fail
EmbeddingFallback(enriched) ==
    {[df |-> SetCol(SetCol(enriched,
                 "cluster", clusters),
                 "cluster_label",
                     [i \in 1..Len(enriched) |-> "Cluster " \o ToString(clusters[i])]),
      outcome |-> "returned",
      log |-> << "Error creating embeddings" >>]
     : clusters \in RandInt(0, 5, Len(enriched))}

\* TryCluster with the fallback drawing from the fixed range 0..4 whatever
\* `high` is
TryClusterFixedRange(df, enriched, library_labels, library_raises, message, high) ==
    IF ~library_raises
    THEN {Finish(enriched, clusters, << >>) : clusters \in library_labels}
    ELSE {Finish(enriched, clusters, << message >>)
             : clusters \in RandInt(0, 5, Len(df))}

\* one try/except of lines 186-235: the labels of the library where it
\* succeeds, else the error logged and the labels of np.random.randint(0,
\* high); the ValueError of randint is raised from the handler, when line
\* 171 has added the processed_keyword column and nothing else
TryCluster(df, enriched, library_labels, library_raises, message, high) ==
    IF ~library_raises
    THEN {Finish(enriched, clusters, << >>) : clusters \in library_labels}
    ELSE IF RandInt(0, high, Len(df)) = {}
         THEN {[df |-> df, outcome |-> "ValueError", log |-> << message >>]}
         ELSE {Finish(enriched, clusters, << message >>)
                  : clusters \in RandInt(0, high, Len(df))}

\* whether the clustering library raises: KMeans must when it has no
\* labelling to give; otherwise a failure (numerical, degenerate input) is
\* up to the library
LibraryRaises(library_labels) ==
    IF library_labels = {} THEN {TRUE} ELSE BOOLEAN

\* every way one call cluster_keywords(keywords_df, n_clusters, method)
\* can end: the DataFrame as the call leaves it, the outcome, the log
cluster_keywords(df0, n_clusters, method) ==
    IF Len(df0) = 0
    THEN {[df |-> df0, outcome |-> "returned",
           log |-> << "Empty keywords DataFrame. Nothing to cluster." >>]}
    ELSE
    LET n == Len(df0)
        df == SetCol(df0, "processed_keyword",
                     [i \in 1..n |-> preprocess_text(df0[i].keyword)])
        enriched == Enrich(df)
        k == RequestedClusters(n_clusters, n)
    IN  UNION {
          IF embedding_raises THEN EmbeddingFallback(enriched)
          ELSE IF method = "kmeans"
               THEN UNION {TryCluster(df, enriched, KMeansLabels(k, n), raises,
                                      "Error with KMeans clustering", k)
                              : raises \in LibraryRaises(KMeansLabels(k, n))}
          ELSE IF method = "dbscan"
               THEN UNION {TryCluster(df, enriched, DBSCANLabels(n), raises,
                                      "Error with DBSCAN clustering", 5)
                              : raises \in LibraryRaises(DBSCANLabels(n))}
          ELSE IF method = "graph"
               THEN UNION {TryCluster(df, enriched, CommunityLabels(n), raises,
                                      "Error with graph-based clustering", 5)
                              : raises \in LibraryRaises(CommunityLabels(n))}
          \* no branch assigns `clusters`: line 238 raises UnboundLocalError
          ELSE {[df |-> df, outcome |-> "UnboundLocalError", log |-> << >>]}
          : embedding_raises \in EmbeddingRaises(Col(df, "processed_keyword"))}

(***************************************************************************)
(* Bounds and inputs                                                       *)
(***************************************************************************)
\* longest keyword batch cut from KeywordList
MaxBatch == 3

\* keyword texts the batches are cut from: repeated texts, upper case,
\* punctuation, and texts without a TF-IDF token
KeywordList ==
    << "hiring software", "Best recruiter software", "a", "a!",
       "hiring software", "hr interview tips" >>

\* config.USER_PROFILES
USER_PROFILES == << "recruiter", "talent_acquisition", "hr_manager", "candidate" >>

\* pd.DataFrame({"keyword": kws})
Frame(kws) == [i \in 1..Len(kws) |-> [keyword |-> kws[i]]]

\* the batches: the empty one and every run of up to MaxBatch consecutive
\* texts of KeywordList
Batches ==
    {SubSeq(KeywordList, i, j) :
        i \in 1..Len(KeywordList), j \in 0..Len(KeywordList)} \cap
    UNION {[1..n -> Range(KeywordList)] : n \in 0..MaxBatch}

\* the first min_samples keywords of test_cluster_keywords: the shortest
\* batch in which DBSCAN can form a cluster
LongBatch ==
    << "recruitment software", "hiring software", "applicant tracking",
       "recruitment CRM", "talent acquisition platform" >>

\* the (n_clusters, method) arguments tried: every hint with kmeans, the
\* default hint with the other methods; "hierarchical" stands for any
\* string that is not a method
NClustersArgs == {NoneOpt} \cup {Some(k) : k \in 0..(MaxBatch + 1)}

CallArgs ==
    {[n_clusters |-> nc, method |-> "kmeans"] : nc \in NClustersArgs}
    \cup {[n_clusters |-> NoneOpt, method |-> m] : m \in {"dbscan", "graph", "hierarchical"}}

\* the clusterers constructed: the test fixture KeywordClusterer(domain),
\* with and without the optional models, main.py's
\* KeywordClusterer(DOMAIN, user_profiles=USER_PROFILES), an empty list
\* and a reordered sublist
NoSimilarity == [p \in Range(USER_PROFILES) |-> 0]

\* main.py's clusterer, without the optional models
MainClusterer ==
    [user_profiles |-> Some(USER_PROFILES), nlp |-> FALSE, sentence_model |-> FALSE,
     similarity |-> NoSimilarity]

Clusterers ==
    { MainClusterer,
      [user_profiles |-> NoneOpt, nlp |-> FALSE, sentence_model |-> FALSE,
       similarity |-> NoSimilarity],
      [user_profiles |-> NoneOpt, nlp |-> TRUE, sentence_model |-> TRUE,
       similarity |-> NoSimilarity],
      [user_profiles |-> Some(<< >>), nlp |-> FALSE, sentence_model |-> TRUE,
       similarity |-> NoSimilarity],
      [user_profiles |-> Some(USER_PROFILES), nlp |-> TRUE, sentence_model |-> TRUE,
       similarity |-> [p \in Range(USER_PROFILES) |-> IF p = "hr_manager" THEN 6 ELSE 2]],
      [user_profiles |-> Some(<< "candidate", "recruiter" >>), nlp |-> TRUE,
       sentence_model |-> FALSE,
       similarity |-> [p \in Range(USER_PROFILES) |-> 3]] }

(***************************************************************************)
(* The run of main.run_keyword_clustering: a clusterer is constructed, a   *)
(* batch is fetched, cluster_keywords is called once on it                 *)
(***************************************************************************)
\* the state of the provider clients and of the calls that use them
more == << serp_cache, serp_issued, serp_call, executor, top_content, fetched,
          requested, results >>

\* SerpAnalysisClient.__init__: an empty cache, nothing looked up; no
\* get_top_content call is under way
InitMore ==
    /\ serp_cache = << >>
    /\ serp_issued = << >>
    /\ serp_call = NoneOpt
    /\ executor = NoneOpt
    /\ top_content = NoneOpt
    /\ fetched = NoneOpt
    /\ requested = NoneOpt
    /\ results = << >>

vars == << user_profiles, nlp, sentence_model, similarity, keywords, keywords_df,
          call, outcome, log, classified, competitors, scored, top_keywords,
          normalized, gap, rankings_file, today, tracked, volatility, more >>

\* the state of the other modules, which the clusterer does not touch
others == << top_keywords, normalized, gap, rankings_file, today, tracked, volatility >>

\* nothing else has run: no text is being normalized, no gap analysis, no
\* top-keyword selection and no tracking has taken place, the storage
\* directory is new
InitOthers ==
    /\ top_keywords = NoneOpt
    /\ normalized = << >>
    /\ gap = NoneOpt
    /\ rankings_file = NoneOpt
    /\ today = 1
    /\ tracked = NoneOpt
    /\ volatility = NoneOpt
    /\ InitMore

\* KeywordClusterer.__init__
Construct(c) ==
    /\ user_profiles = c.user_profiles
    /\ nlp = c.nlp
    /\ sentence_model = c.sentence_model
    /\ similarity = c.similarity

Init ==
    /\ \/ \E c \in Clusterers : Construct(c) /\ keywords \in Batches
       \/ Construct(MainClusterer) /\ keywords = LongBatch
    /\ keywords_df = Frame(keywords)
    /\ classified = NoneOpt
    /\ competitors = << >>
    /\ scored = NoneOpt
    /\ call = NoneOpt
    /\ outcome = "none"
    /\ log = << >>
    /\ InitOthers

ClusterKeywords ==
    /\ outcome = "none"
    /\ \E args \in CallArgs :
          \E run \in cluster_keywords(keywords_df, args.n_clusters, args.method) :
              /\ keywords_df' = run.df
              /\ outcome' = run.outcome
              /\ log' = log \o run.log
              /\ call' = Some(args)
    /\ UNCHANGED << user_profiles, nlp, sentence_model, similarity, keywords, classified,
                    competitors, scored, others, more >>

Next == ClusterKeywords

Spec == Init /\ [][Next]_vars

(***************************************************************************)
(* The classifiers called on their own: _detect_intent and                 *)
(* _assign_user_profile applied to single keywords by clusterers of every  *)
(* profile configuration                                                   *)
(***************************************************************************)
\* longest configured profile list
MaxProfiles == 2

\* names a profile list is made of: the four of the table and one the
\* table does not know
ProfileNames == Range(USER_PROFILES) \cup {"sourcer"}

\* the user_profiles arguments: None, and every list of up to MaxProfiles
\* distinct names, in every order
ProfileLists ==
    {NoneOpt} \cup
    {Some(l) : l \in {q \in UNION {[1..n -> ProfileNames] : n \in 0..MaxProfiles} :
                         \A i, j \in 1..Len(q) : i # j => q[i] # q[j]}}

\* similarities spaCy may report, in tenths: at the threshold and above it
SimilarityLevels == {3, 4}

\* keywords classified: the two of the specification's examples, keywords
\* with markers of several intents or of several profiles, in mixed case,
\* with a marker inside a longer word, without any marker, and the empty one
ClassifyPool ==
    { "how to hire developers", "best ats software", "How to choose the BEST ats",
      "ats login free trial", "buy top resume review", "talent acquisition software",
      "recruiter candidate interview", "Recruiter Candidate", "hr employee recruiter cv",
      "applicant tracking", "stop", "" }

InitClassify ==
    /\ user_profiles \in ProfileLists
    /\ nlp \in BOOLEAN
    /\ sentence_model = FALSE
    /\ similarity \in (IF nlp THEN [Range(USER_PROFILES) -> SimilarityLevels]
                              ELSE {NoSimilarity})
    /\ keywords = << >>
    /\ keywords_df = << >>
    /\ call = NoneOpt
    /\ outcome = "none"
    /\ log = << >>
    /\ classified = NoneOpt
    /\ competitors = << >>
    /\ scored = NoneOpt
    /\ InitOthers

\* each run classifies one keyword
DetectIntent ==
    /\ ~classified.some
    /\ \E keyword \in ClassifyPool :
          classified' = Some([op |-> "_detect_intent", keyword |-> keyword,
                              result |-> _detect_intent(keyword)])
    /\ UNCHANGED << user_profiles, nlp, sentence_model, similarity, keywords,
                    keywords_df, call, outcome, log, competitors, scored, others, more >>

AssignUserProfile ==
    /\ ~classified.some
    /\ \E keyword \in ClassifyPool :
          classified' = Some([op |-> "_assign_user_profile", keyword |-> keyword,
                              result |-> _assign_user_profile(keyword, similarity)])
    /\ UNCHANGED << user_profiles, nlp, sentence_model, similarity, keywords,
                    keywords_df, call, outcome, log, competitors, scored, others, more >>

NextClassify == DetectIntent \/ AssignUserProfile

SpecClassify == InitClassify /\ [][NextClassify]_vars

(***************************************************************************)
(* Opportunity scoring: CompetitorAuditor._calculate_opportunity           *)
(* (modules/competitor_audit.py) and                                       *)
(* OpportunityTracker.identify_weekly_opportunities                        *)
(* (modules/opportunity_tracker.py)                                        *)
(***************************************************************************)
\* config.DOMAIN, the self.domain of the auditor and of the tracker
Domain == "asendia.ai"

Max2(a, b) == IF a >= b THEN a ELSE b

Min2(a, b) == IF a <= b THEN a ELSE b

\* Normalize keeping the upper limit only
NormalizeUpperOnly(score, top) == Min2(top, score)

\* Normalize wrapping around the limit instead of stopping at it
NormalizeWrap(score, top) == score % (top + 1)

\* score = max(0, min(100, score)); top is 100 in the unit of the score
Normalize(score, top) == Max2(0, Min2(top, score))

\* CompetitorAuditor._calculate_opportunity
_calculate_opportunity(features, ranking_domains) ==
    LET base == 50
        snippet == IF features.featured_snippet THEN 20 ELSE 0
        paa == IF features.people_also_ask THEN 10 ELSE 0
        panel == IF features.knowledge_panel THEN 15 ELSE 0
        local == IF features.local_pack /\ Domain \notin Range(ranking_domains)
                 THEN 10 ELSE 0
        competitor_count ==
            Cardinality({i \in 1..Len(ranking_domains) :
                            \E c \in 1..Len(competitors) :
                                Contains(ranking_domains[i], competitors[c])})
        bonus == IF competitor_count > 0 THEN 5 * competitor_count ELSE 0
        ranking == IF \E i \in 1..Len(ranking_domains) : Contains(ranking_domains[i], Domain)
                   THEN 25 ELSE 0
    IN  Normalize(base + snippet + paa - panel - local + bonus - ranking, 100)

\* list.sort(key=lambda x: x[field], reverse=True): stable, equal keys
\* keep their order
RECURSIVE SortDescBy(_, _)
SortDescBy(seq, field) ==
    IF Len(seq) = 0 THEN << >>
    ELSE LET best == Min({i \in 1..Len(seq) :
                             \A j \in 1..Len(seq) : seq[j][field] <= seq[i][field]})
         IN  << seq[best] >>
             \o SortDescBy(SubSeq(seq, 1, best - 1) \o SubSeq(seq, best + 1, Len(seq)),
                           field)

\* lines 144-153 of identify_trending_topics: the topics found, sorted by
\* trend score, one entry per topic (the one with the highest score)
RECURSIVE KeepFirstPerTopic(_, _)
KeepFirstPerTopic(topics, seen) ==
    IF Len(topics) = 0 THEN << >>
    ELSE IF Head(topics).topic \in seen
         THEN KeepFirstPerTopic(Tail(topics), seen)
         ELSE << Head(topics) >>
              \o KeepFirstPerTopic(Tail(topics), seen \cup {Head(topics).topic})

identify_trending_topics(found) ==
    KeepFirstPerTopic(SortDescBy(found, "trend_score"), {})

\* lines 246-285: the opportunity of one keyword from its SERP; the score
\* is in tenths, trend_score / 10 being a true division
Opportunity(keyword, serp_results, trend_data) ==
    LET already_ranking ==
            \E i \in 1..Len(serp_results) :
                /\ "url" \in DOMAIN serp_results[i]
                /\ Contains(serp_results[i].url, Domain)
        features ==
            [featured_snippet |->
                 \E i \in 1..Len(serp_results) : serp_results[i].type = "featured_snippet",
             people_also_ask |->
                 \E i \in 1..Len(serp_results) : serp_results[i].type = "people_also_ask"]
        base == 500
        snippet == IF features.featured_snippet THEN 200 ELSE 0
        paa == IF features.people_also_ask THEN 100 ELSE 0
        ranking == IF already_ranking THEN 300 ELSE 0
        trend_bonus == Min2(300, trend_data.trend_score)
    IN  [keyword |-> keyword,
         opportunity_score |-> Normalize(base + snippet + paa - ranking + trend_bonus, 1000),
         features |-> features,
         already_ranking |-> already_ranking,
         trend_data |-> trend_data]

\* the opportunities of the trending keywords in order; a keyword whose
\* SERP lookup raises is logged and skipped
RECURSIVE Opportunities(_, _)
Opportunities(trending_topics, serps) ==
    IF Len(trending_topics) = 0 THEN << >>
    ELSE LET t == Head(trending_topics)
         IN  (IF serps[t.topic] = "raises" THEN << >>
              ELSE << Opportunity(t.topic, serps[t.topic], t) >>)
             \o Opportunities(Tail(trending_topics), serps)

\* OpportunityTracker.identify_weekly_opportunities; found is what the
\* trends client gave identify_trending_topics, serps what get_serp gives
\* for each keyword
identify_weekly_opportunities(found, serps, top_n) ==
    LET trending_topics == identify_trending_topics(found)
        limited == SubSeq(trending_topics, 1, Min2(Len(trending_topics), 20))
        sorted == SortDescBy(Opportunities(limited, serps), "opportunity_score")
    IN  SubSeq(sorted, 1, Min2(Len(sorted), top_n))

\* most entries of ranking_domains tried (the code keeps up to 10)
MaxRanking == 5

\* netlocs of ranking pages: the own domain, the own domain with a host
\* name, a competitor's
DomainPool == {"asendia.ai", "www.asendia.ai", "www.comp.com"}

RankingLists == UNION {[1..n -> DomainPool] : n \in 0..MaxRanking}

\* the SERP flags _calculate_opportunity reads
FeatureSets ==
    [featured_snippet : BOOLEAN, people_also_ask : BOOLEAN,
     knowledge_panel : BOOLEAN, local_pack : BOOLEAN]

\* competitor lists: none, one domain, and the [""] that
\* config.COMPETITORS is when the environment names none
CompetitorLists == {<< >>, << "comp.com" >>, << "" >>}

\* most rising queries the trends client returns in all
MaxRising == 2

TopicPool == {"hiring AI", "hiring automation"}

\* trend values: hugely negative, none, small and not a multiple of ten, at
\* the cap of the bonus, huge
TrendValues == {-100000, 0, 295, 300, 1000000}

FoundTopics ==
    UNION {[1..n -> [topic : TopicPool, trend_score : TrendValues]] : n \in 0..MaxRising}

\* what get_serp gives for a keyword: it raises, or a list of results
SerpPool ==
    { "raises",
      << >>,
      << [type |-> "organic", url |-> "https://asendia.ai/blog"] >>,
      << [type |-> "featured_snippet", url |-> "https://www.comp.com/a"],
         [type |-> "people_also_ask"] >>,
      << [type |-> "organic", url |-> "https://www.comp.com/a"],
         [type |-> "featured_snippet", url |-> "https://www.asendia.ai/b"] >>,
      << [type |-> "people_also_ask"],
         [type |-> "organic", url |-> "https://asendia.ai/blog"] >> }

TopNs == {1, 10}

InitScore ==
    /\ competitors \in CompetitorLists
    /\ scored = NoneOpt
    /\ user_profiles = NoneOpt
    /\ nlp = FALSE
    /\ sentence_model = FALSE
    /\ similarity = NoSimilarity
    /\ keywords = << >>
    /\ keywords_df = << >>
    /\ call = NoneOpt
    /\ outcome = "none"
    /\ log = << >>
    /\ classified = NoneOpt
    /\ InitOthers

\* each run scores once
CalculateOpportunity ==
    /\ ~scored.some
    /\ \E features \in FeatureSets, ranking_domains \in RankingLists :
          scored' = Some([op |-> "_calculate_opportunity",
                          features |-> features,
                          ranking_domains |-> ranking_domains,
                          score |-> _calculate_opportunity(features, ranking_domains)])
    /\ UNCHANGED << user_profiles, nlp, sentence_model, similarity, keywords,
                    keywords_df, call, outcome, log, classified, competitors, others, more >>

IdentifyWeeklyOpportunities ==
    /\ ~scored.some
    /\ \E found \in FoundTopics, serps \in [TopicPool -> SerpPool], top_n \in TopNs :
          scored' = Some([op |-> "identify_weekly_opportunities",
                          found |-> found,
                          serps |-> serps,
                          top_n |-> top_n,
                          opportunities |-> identify_weekly_opportunities(found, serps, top_n)])
    /\ UNCHANGED << user_profiles, nlp, sentence_model, similarity, keywords,
                    keywords_df, call, outcome, log, classified, competitors, others, more >>

NextScore == CalculateOpportunity \/ IdentifyWeeklyOpportunities

SpecScore == InitScore /\ [][NextScore]_vars

(***************************************************************************)
(* KeywordClusterer.get_top_keywords_by_cluster                            *)
(***************************************************************************)
\* clustered_df[clustered_df['cluster'] == cluster_id]
ClusterFrame(df, cluster_id) ==
    LET InCluster(row) == row.cluster = cluster_id
    IN  SelectSeq(df, InCluster)

\* the orders in which n rows can be arranged
Orders(n) == {p \in [1..n -> 1..n] : \A i, j \in 1..n : i # j => p[i] # p[j]}

\* cluster_df.sort_values(by=metric, ascending=False): the default kind,
\* quicksort, is not stable, so rows with equal values come in any order
sort_values(df, by) ==
    {[i \in 1..Len(df) |-> df[p[i]]] :
        p \in {q \in Orders(Len(df)) :
                  \A i \in 1..(Len(df) - 1) : df[q[i]][by] >= df[q[i + 1]][by]}}

\* DataFrame.head(n) for n >= 0
head(df, n) == SubSeq(df, 1, Min2(Len(df), n))

\* top_keywords[cluster_label] = keywords on a dict kept as the sequence of
\* its items: an existing key keeps its place and takes the new value
SetItem(dict, key, value) ==
    IF \E i \in 1..Len(dict) : dict[i].key = key
    THEN [i \in 1..Len(dict) |->
             IF dict[i].key = key THEN [key |-> key, value |-> value] ELSE dict[i]]
    ELSE Append(dict, [key |-> key, value |-> value])

\* the body of the loop of lines 291-305 for the cluster ids still to come
RECURSIVE TopKeywordsFrom(_, _, _, _, _)
TopKeywordsFrom(clustered_df, cluster_ids, metric, top_n, top) ==
    IF Len(cluster_ids) = 0 THEN {top}
    ELSE LET cluster_id == Head(cluster_ids)
             cluster_df == ClusterFrame(clustered_df, cluster_id)
             cluster_label ==
                 IF "cluster_label" \in Columns(cluster_df)
                 THEN cluster_df[1].cluster_label
                 ELSE "Cluster " \o ToString(cluster_id)
             selections ==
                 IF metric \in Columns(cluster_df)
                 THEN {Col(head(sorted_df, top_n), "keyword") :
                          sorted_df \in sort_values(cluster_df, metric)}
                 ELSE {Col(head(cluster_df, top_n), "keyword")}
         IN  UNION {TopKeywordsFrom(clustered_df, Tail(cluster_ids), metric, top_n,
                                    SetItem(top, cluster_label, selection)) :
                       selection \in selections}

\* KeywordClusterer.get_top_keywords_by_cluster: the mappings it can return
get_top_keywords_by_cluster(clustered_df, metric, top_n) ==
    IF Len(clustered_df) = 0 THEN {<< >>}
    ELSE TopKeywordsFrom(clustered_df, Unique(Col(clustered_df, "cluster")),
                         metric, top_n, << >>)

\* most rows of a clustered frame
MaxRows == 3

\* the keywords of the frame of test_get_top_keywords_by_cluster
TopKeywordList ==
    << "recruitment software", "hiring software", "applicant tracking",
       "recruitment CRM", "talent acquisition platform", "hiring process" >>

\* the frame of test_get_top_keywords_by_cluster
TestFrame ==
    LET volume == << 1000, 800, 600, 500, 400, 300 >>
        cluster == << 0, 0, 1, 1, 0, 1 >>
    IN  [i \in 1..6 |->
            [keyword |-> TopKeywordList[i], volume |-> volume[i], cluster |-> cluster[i],
             cluster_label |-> "Cluster " \o ToString(cluster[i])]]

\* volumes, with equal ones among them
VolumePool == {400, 800}

\* cluster ids and the labels the clusters may carry: cluster_keywords gives
\* every row of a cluster the same label, and two clusters may get the same
ClusterIdPool == {0, 1}

LabelPool == {"Cluster 0", "informational: hiring, software"}

\* frames of up to MaxRows rows, with or without the volume column and the
\* cluster_label column
ClusteredFrames ==
    UNION {
        UNION {
            {[i \in 1..n |-> [keyword |-> TopKeywordList[i], volume |-> volume[i],
                              cluster |-> cluster[i],
                              cluster_label |-> label[cluster[i]]]],
             [i \in 1..n |-> [keyword |-> TopKeywordList[i], volume |-> volume[i],
                              cluster |-> cluster[i]]],
             [i \in 1..n |-> [keyword |-> TopKeywordList[i], cluster |-> cluster[i],
                              cluster_label |-> label[cluster[i]]]]} :
            volume \in [1..n -> VolumePool], cluster \in [1..n -> ClusterIdPool],
            label \in [ClusterIdPool -> LabelPool]} :
        n \in 0..MaxRows}

MetricArgs == {"volume", "cpc"}

TopNArgs == {1, 2, 5}

\* main.run_keyword_clustering after the clustering: the clusterer holds a
\* clustered frame
InitTop ==
    /\ Construct(MainClusterer)
    /\ keywords_df \in ClusteredFrames \cup {TestFrame}
    /\ keywords = Col(keywords_df, "keyword")
    /\ call = NoneOpt
    /\ outcome = "none"
    /\ log = << >>
    /\ classified = NoneOpt
    /\ competitors = << >>
    /\ scored = NoneOpt
    /\ InitOthers

\* each run selects once
GetTopKeywordsByCluster ==
    /\ ~top_keywords.some
    /\ \E metric \in MetricArgs, top_n \in TopNArgs :
          \E top \in get_top_keywords_by_cluster(keywords_df, metric, top_n) :
              top_keywords' = Some([metric |-> metric, top_n |-> top_n, result |-> top])
    /\ UNCHANGED << user_profiles, nlp, sentence_model, similarity, keywords, keywords_df,
                    call, outcome, log, classified, competitors, scored, normalized,
                    gap, rankings_file, today, tracked, volatility, more >>

NextTop == GetTopKeywordsByCluster

SpecTop == InitTop /\ [][NextTop]_vars

(***************************************************************************)
(* preprocess_text applied to a text, and again to its own result          *)
(***************************************************************************)
\* most pieces a text is made of
MaxPieces == 3

\* pieces of texts: letters in both cases, whitespace, angle brackets and a
\* tag, the URL prefixes of the pattern, punctuation, and the two halves of
\* a URL that a tag can keep apart
PiecePool ==
    {"a", "B", " ", "\n", "<", ">", "<b>", "http://", "www.", ".", "ht", "tp://x"}

RECURSIVE Concat(_)
Concat(pieces) == IF Len(pieces) = 0 THEN "" ELSE Head(pieces) \o Concat(Tail(pieces))

Texts == {None} \cup {Concat(pieces) : pieces \in UNION {[1..n -> PiecePool] : n \in 0..MaxPieces}}

\* most applications of preprocess_text in a row
MaxPasses == 2

InitText ==
    /\ \E x \in Texts : normalized = << x >>
    /\ user_profiles = NoneOpt
    /\ nlp = FALSE
    /\ sentence_model = FALSE
    /\ similarity = NoSimilarity
    /\ keywords = << >>
    /\ keywords_df = << >>
    /\ call = NoneOpt
    /\ outcome = "none"
    /\ log = << >>
    /\ classified = NoneOpt
    /\ competitors = << >>
    /\ scored = NoneOpt
    /\ top_keywords = NoneOpt
    /\ gap = NoneOpt
    /\ rankings_file = NoneOpt
    /\ today = 1
    /\ tracked = NoneOpt
    /\ volatility = NoneOpt
    /\ InitMore

\* text = preprocess_text(text)
PreprocessText ==
    /\ Len(normalized) <= MaxPasses
    /\ normalized' = Append(normalized, preprocess_text(normalized[Len(normalized)]))
    /\ UNCHANGED << user_profiles, nlp, sentence_model, similarity, keywords, keywords_df,
                    call, outcome, log, classified, competitors, scored, top_keywords,
                    gap, rankings_file, today, tracked, volatility, more >>

NextText == PreprocessText

SpecText == InitText /\ [][NextText]_vars

(***************************************************************************)
(* CompetitorAuditor.get_top_content and analyze_content_gap               *)
(* (modules/competitor_audit.py).  The providers' answers are inputs:      *)
(* top_pages[d] is what the competitor client finds for domain d (pages    *)
(* with the keywords the keyword client finds for each, or "fails"),       *)
(* metrics[k] and serps[k] what the keyword and SERP clients give for      *)
(* keyword k, unless they raise.  A result carries the provider lookups    *)
(* issued and what was logged.                                             *)
(***************************************************************************)
Lookup(op, arg) == [op |-> op, arg |-> arg]

\* CompetitorAuditor.get_top_content: the frame of pages with their
\* keywords and keyword counts, or on any failure the empty frame
get_top_content(domain, pages) ==
    IF pages = "fails"
    THEN [frame |-> << >>,
          log |-> << "Error getting top content for " \o domain >>,
          lookups |-> << Lookup("get_top_pages", domain) >>]
    ELSE [frame |-> [i \in 1..Len(pages) |->
                        [url |-> pages[i].url, keywords |-> pages[i].keywords,
                         keyword_count |-> Len(pages[i].keywords)]],
          log |-> << >>,
          lookups |-> << Lookup("get_top_pages", domain) >>
                      \o [i \in 1..Len(pages) |->
                             Lookup("get_url_organic_keywords", pages[i].url)]]

\* the set built by the loops of lines 89-91 and 102-104
KeywordSet(frame) == UNION {Range(frame[i].keywords) : i \in 1..Len(frame)}

\* index of the first c in s at or after i, 0 when there is none
RECURSIVE Find(_, _, _)
Find(s, c, i) ==
    IF i > Len(s) THEN 0
    ELSE IF Char(s, i) = c THEN i
    ELSE Find(s, c, i + 1)

\* urlparse(url).path of an absolute URL without query or fragment
UrlPath(url) ==
    LET scheme == CHOOSE i \in 1..Len(url) : StartsWithAt(url, i, "://")
        slash == Find(url, "/", scheme + 3)
    IN  IF slash = 0 THEN "" ELSE Rest(url, slash)

\* lines 125-136: for each ranking URL, the first competitor it contains
RECURSIVE CompetitorsRankingAt(_)
CompetitorsRankingAt(ranking_urls) ==
    IF Len(ranking_urls) = 0 THEN << >>
    ELSE LET url == Head(ranking_urls)
             matching == {c \in 1..Len(competitors) : Contains(url, competitors[c])}
         IN  (IF matching = {} THEN << >>
              ELSE << competitors[Min(matching)] \o " (" \o UrlPath(url) \o ")" >>)
             \o CompetitorsRankingAt(Tail(ranking_urls))

\* the sequences that hold each element of a set once: the orders in which
\* list(a_set) may give them
Listings(S) ==
    {p \in [1..Cardinality(S) -> S] : \A i, j \in 1..Cardinality(S) : i # j => p[i] # p[j]}

\* lines 118-146: the metrics of the gap keywords in the order given; a
\* keyword whose lookup raises is logged and left out
RECURSIVE GapMetrics(_, _, _, _)
GapMetrics(gap_keywords, min_traffic, metrics, serps) ==
    IF Len(gap_keywords) = 0 THEN [rows |-> << >>, log |-> << >>, lookups |-> << >>]
    ELSE LET keyword == Head(gap_keywords)
             rest == GapMetrics(Tail(gap_keywords), min_traffic, metrics, serps)
             failed == "Error getting metrics for keyword " \o keyword
             asked == << Lookup("get_keyword_metrics", keyword) >>
             searched == asked \o << Lookup("get_serp", keyword) >>
             volume == IF "volume" \in DOMAIN metrics[keyword]
                       THEN metrics[keyword].volume ELSE 0
             ranking_urls ==
                 LET WithUrl(result) == "url" \in DOMAIN result
                     found == SelectSeq(serps[keyword], WithUrl)
                 IN  [i \in 1..Len(found) |-> found[i].url]
             row == [keyword |-> keyword,
                     volume |-> volume,
                     difficulty |-> IF "difficulty" \in DOMAIN metrics[keyword]
                                    THEN metrics[keyword].difficulty ELSE 0,
                     cpc |-> IF "cpc" \in DOMAIN metrics[keyword]
                             THEN metrics[keyword].cpc ELSE 0,
                     competitors_ranking |-> CompetitorsRankingAt(ranking_urls)]
         IN  IF "raises" \in DOMAIN metrics[keyword]
             THEN [rows |-> rest.rows, log |-> << failed >> \o rest.log,
                   lookups |-> asked \o rest.lookups]
             ELSE IF volume < min_traffic
             THEN [rows |-> rest.rows, log |-> rest.log, lookups |-> asked \o rest.lookups]
             ELSE IF serps[keyword] = "raises"
             THEN [rows |-> rest.rows, log |-> << failed >> \o rest.log,
                   lookups |-> searched \o rest.lookups]
             ELSE [rows |-> << row >> \o rest.rows, log |-> rest.log,
                   lookups |-> searched \o rest.lookups]

\* lines 97-105: the top content of the competitors in turn; reading the
\* keywords column of an empty frame raises KeyError
RECURSIVE CompetitorKeywords(_, _)
CompetitorKeywords(listed, top_pages) ==
    IF Len(listed) = 0
    THEN [outcome |-> "returned", keywords |-> {}, log |-> << >>, lookups |-> << >>]
    ELSE LET content == get_top_content(Head(listed), top_pages[Head(listed)])
             rest == CompetitorKeywords(Tail(listed), top_pages)
         IN  IF "keywords" \notin Columns(content.frame)
             THEN [outcome |-> "KeyError", keywords |-> {}, log |-> content.log,
                   lookups |-> content.lookups]
             ELSE [outcome |-> rest.outcome,
                   keywords |-> KeywordSet(content.frame) \cup rest.keywords,
                   log |-> content.log \o rest.log,
                   lookups |-> content.lookups \o rest.lookups]

\* Falsy taking every list for a non-empty one
NeverFalsy(list) == FALSE

\* not a_list: an empty list is false
Falsy(list) == Len(list) = 0

\* CompetitorAuditor.analyze_content_gap: the results it can have
analyze_content_gap(min_traffic, top_pages, metrics, serps) ==
    IF Falsy(competitors)
    THEN {[outcome |-> "returned", rows |-> << >>,
           log |-> << "No competitors specified for content gap analysis" >>,
           lookups |-> << >>]}
    ELSE LET your_content == get_top_content(Domain, top_pages[Domain])
             theirs == CompetitorKeywords(SubSeq(competitors, 1, Min2(Len(competitors), 3)),
                                          top_pages)
         IN  IF "keywords" \notin Columns(your_content.frame)
             THEN {[outcome |-> "KeyError", rows |-> << >>, log |-> your_content.log,
                    lookups |-> your_content.lookups]}
             ELSE IF theirs.outcome = "KeyError"
             THEN {[outcome |-> "KeyError", rows |-> << >>,
                    log |-> your_content.log \o theirs.log,
                    lookups |-> your_content.lookups \o theirs.lookups]}
             ELSE LET all_gap_keywords ==
                          theirs.keywords \ KeywordSet(your_content.frame)
                  IN  {LET measured == GapMetrics(SubSeq(listing, 1, Min2(Len(listing), 50)),
                                                  min_traffic, metrics, serps)
                       IN  [outcome |-> "returned", rows |-> measured.rows,
                            log |-> your_content.log \o theirs.log \o measured.log,
                            lookups |-> your_content.lookups \o theirs.lookups
                                            \o measured.lookups] :
                          listing \in Listings(all_gap_keywords)}

\* longest competitor list
MaxCompetitors == 2

\* competitor domains; "" is the one config.COMPETITORS holds when the
\* environment names none
CompetitorPool == {"comp.com", ""}

GapCompetitorLists == UNION {[1..n -> CompetitorPool] : n \in 0..MaxCompetitors}

GapKeywordPool == {"ats", "crm guide"}

\* what the competitor and keyword clients find for a domain
TopPagesPool ==
    { "fails",
      << [url |-> "https://site/about", keywords |-> << >>] >>,
      << [url |-> "https://site/ats", keywords |-> << "ats" >>] >>,
      << [url |-> "https://site/ats", keywords |-> << "ats" >>],
         [url |-> "https://site/crm-guide", keywords |-> << "crm guide", "ats" >>] >> }

\* what get_keyword_metrics gives: it raises, or metrics below or above the
\* traffic threshold
MetricsPool ==
    { [raises |-> TRUE],
      [volume |-> 50, difficulty |-> 10, cpc |-> 2],
      [volume |-> 100, difficulty |-> 40, cpc |-> 5] }

\* what get_serp gives: it raises, or results among which a competitor
GapSerpPool ==
    { "raises",
      << [type |-> "organic", url |-> "https://www.comp.com/blog/ats"],
         [type |-> "people_also_ask"],
         [type |-> "organic", url |-> "https://asendia.ai/ats"] >> }

MinTraffics == {100}

\* CompetitorAuditor.__init__ with a competitor list
InitGap ==
    /\ competitors \in GapCompetitorLists
    /\ user_profiles = NoneOpt
    /\ nlp = FALSE
    /\ sentence_model = FALSE
    /\ similarity = NoSimilarity
    /\ keywords = << >>
    /\ keywords_df = << >>
    /\ call = NoneOpt
    /\ outcome = "none"
    /\ log = << >>
    /\ classified = NoneOpt
    /\ scored = NoneOpt
    /\ InitOthers

\* each run analyzes once
AnalyzeContentGap ==
    /\ ~gap.some
    /\ \E min_traffic \in MinTraffics,
          top_pages \in [{Domain} \cup Range(competitors) -> TopPagesPool],
          metrics \in [GapKeywordPool -> MetricsPool],
          serps \in [GapKeywordPool -> GapSerpPool] :
          \E result \in analyze_content_gap(min_traffic, top_pages, metrics, serps) :
              gap' = Some([top_pages |-> top_pages, metrics |-> metrics, serps |-> serps,
                           outcome |-> result.outcome, rows |-> result.rows,
                           log |-> result.log, lookups |-> result.lookups])
    /\ UNCHANGED << user_profiles, nlp, sentence_model, similarity, keywords, keywords_df,
                    call, outcome, log, classified, competitors, scored, top_keywords,
                    normalized, rankings_file, today, tracked, volatility, more >>

NextGap == AnalyzeContentGap

SpecGap == InitGap /\ [][NextGap]_vars

(***************************************************************************)
(* OpportunityTracker.track_keyword_rankings and check_serp_volatility     *)
(* (modules/opportunity_tracker.py).  A date is the number of its day:     *)
(* strftime("%Y-%m-%d") and pd.to_datetime map days one to one.  serps[k]  *)
(* is what get_serp gives for keyword k, or "raises".                      *)
(***************************************************************************)
\* the texts read_csv takes for a missing value among those a cell can hold
NaTokens == {"", "NA", "N/A", "n/a", "NaN", "nan", "NULL", "null", "None", "<NA>", "#N/A"}

\* pd.DataFrame(list of dicts), pd.concat: the columns are those of all the
\* rows, a row without a column holds a missing value in it
FillColumns(rows) ==
    LET columns == UNION {DOMAIN rows[i] : i \in 1..Len(rows)}
    IN  [i \in 1..Len(rows) |->
            [c \in columns |-> IF c \in DOMAIN rows[i] THEN rows[i][c] ELSE None]]

concat(existing_df, rankings_df) == FillColumns(existing_df \o rankings_df)

\* drop_duplicates(subset=['keyword', 'date']): the first row of each
\* (keyword, date) is kept
RECURSIVE drop_duplicates(_)
drop_duplicates(df) ==
    IF Len(df) = 0 THEN << >>
    ELSE LET init == drop_duplicates(SubSeq(df, 1, Len(df) - 1))
             last == df[Len(df)]
         IN  IF \E i \in 1..Len(init) :
                    init[i].keyword = last.keyword /\ init[i].date = last.date
             THEN init
             ELSE Append(init, last)

\* pd.read_csv of what to_csv(index=False) wrote: a text cell that is one
\* of the missing-value texts comes back missing; numbers, booleans and
\* other texts come back as they were
read_csv(file) ==
    [i \in 1..Len(file) |->
        [c \in DOMAIN file[i] |->
            IF c \in {"keyword", "error"} /\ file[i][c] \in NaTokens
            THEN None ELSE file[i][c]]]

\* a frame without rows is written without a header, and read_csv raises
\* on such a file
ReadRaises(file) == Len(file) = 0

\* lines 56-61: the position of the first result of the own domain, or 0
Ranking(serp_results) ==
    LET own == {i \in 1..Len(serp_results) :
                   /\ "url" \in DOMAIN serp_results[i]
                   /\ Contains(serp_results[i].url, Domain)}
    IN  IF own = {} THEN 0 ELSE Min(own)

\* the loop body with a failed lookup adding nothing
ObservationUnlessFailed(keyword, serp_results, date) ==
    IF serp_results = "raises" THEN << >>
    ELSE << [keyword |-> keyword, ranking |-> Ranking(serp_results), date |-> date,
             in_top_100 |-> Ranking(serp_results) > 0] >>

\* lines 52-78, the loop body: what one keyword adds to rankings
Observation(keyword, serp_results, date) ==
    IF serp_results = "raises"
    THEN << [keyword |-> keyword, ranking |-> 0, date |-> date, in_top_100 |-> FALSE,
             error |-> "lookup failed"] >>
    ELSE << [keyword |-> keyword, ranking |-> Ranking(serp_results), date |-> date,
             in_top_100 |-> Ranking(serp_results) > 0] >>

\* lines 48-78: rankings for the keywords given
RECURSIVE Rankings(_, _, _)
Rankings(tracked_keywords, serps, date) ==
    IF Len(tracked_keywords) = 0 THEN << >>
    ELSE Observation(Head(tracked_keywords), serps[Head(tracked_keywords)], date)
         \o Rankings(Tail(tracked_keywords), serps, date)

\* the errors logged by the loop
RECURSIVE TrackingErrors(_, _)
TrackingErrors(tracked_keywords, serps) ==
    IF Len(tracked_keywords) = 0 THEN << >>
    ELSE (IF serps[Head(tracked_keywords)] = "raises"
          THEN << "Error tracking ranking for " \o Head(tracked_keywords) >>
          ELSE << >>)
         \o TrackingErrors(Tail(tracked_keywords), serps)

\* OpportunityTracker.track_keyword_rankings on the file as it is; read_raises
\* tells whether reading or merging the existing file fails
track_keyword_rankings(tracked_keywords, update, serps, read_raises) ==
    LET limited == SubSeq(tracked_keywords, 1, Min2(Len(tracked_keywords), 30))
        rankings_df == FillColumns(Rankings(limited, serps, today))
        errors == TrackingErrors(limited, serps)
        combined_df == drop_duplicates(concat(read_csv(rankings_file.value), rankings_df))
    IN  IF ~update
        THEN [rankings_df |-> rankings_df, returned |-> rankings_df,
              file |-> rankings_file, log |-> errors]
        ELSE IF ~rankings_file.some
        THEN [rankings_df |-> rankings_df, returned |-> rankings_df,
              file |-> Some(rankings_df), log |-> errors]
        ELSE IF read_raises \/ ReadRaises(rankings_file.value)
        THEN [rankings_df |-> rankings_df, returned |-> rankings_df,
              file |-> Some(rankings_df),
              log |-> errors \o << "Error updating rankings file" >>]
        ELSE [rankings_df |-> rankings_df, returned |-> combined_df,
              file |-> Some(combined_df), log |-> errors]

\* sort_values(by) ascending with the default kind: rows with equal values
\* come in any order
sort_values_ascending(df, by) ==
    {[i \in 1..Len(df) |-> df[p[i]]] :
        p \in {q \in Orders(Len(df)) :
                  \A i \in 1..(Len(df) - 1) : df[q[i]][by] <= df[q[i + 1]][by]}}

RECURSIVE Sum(_)
Sum(seq) == IF Len(seq) = 0 THEN 0 ELSE Head(seq) + Sum(Tail(seq))

Abs(x) == IF x < 0 THEN -x ELSE x

\* Series.std() squared, as a fraction: the sample variance of n values
\* is (n * sum(x^2) - sum(x)^2) / (n * (n - 1))
Variance(values) ==
    LET n == Len(values)
    IN  [num |-> n * Sum([i \in 1..n |-> values[i] * values[i]]) - Sum(values) * Sum(values),
         den |-> n * (n - 1)]

\* diff().abs().dropna().mean() as a fraction
MeanChange(values) ==
    LET n == Len(values)
    IN  [num |-> Sum([i \in 1..(n - 1) |-> Abs(values[i + 1] - values[i])]),
         den |-> n - 1]

\* min(100, (std_dev + ranking_changes) * 5) is 100: std_dev + change >= 20
AtCap(values) ==
    LET n == Len(values)
        v == Variance(values).num
        c == MeanChange(values).num
    IN  \/ c >= 20 * (n - 1)
        \/ v * (n - 1) >= n * (20 * (n - 1) - c) * (20 * (n - 1) - c)

\* lines 193-215 for the keywords still to come, on the rows left by the
\* filters; volatility is kept as the sequence of the dict's items
RECURSIVE VolatilityOf(_, _, _)
VolatilityOf(checked_keywords, rankings_df, volatility_so_far) ==
    IF Len(checked_keywords) = 0 THEN {volatility_so_far}
    ELSE LET keyword == Head(checked_keywords)
             OfKeyword(row) == row.keyword = keyword
             keyword_data == SelectSeq(rankings_df, OfKeyword)
         IN  IF Len(keyword_data) <= 1
             THEN VolatilityOf(Tail(checked_keywords), rankings_df, volatility_so_far)
             ELSE UNION {
                      VolatilityOf(Tail(checked_keywords), rankings_df,
                          SetItem(volatility_so_far, keyword,
                              [variance |-> Variance(Col(keyword_data, "ranking")),
                               mean_daily_change |-> MeanChange(Col(sorted, "ranking")),
                               at_cap |-> AtCap(Col(sorted, "ranking")),
                               data_points |-> Len(keyword_data)])) :
                      sorted \in sort_values_ascending(keyword_data, "date")}

\* OpportunityTracker.check_serp_volatility; now is later in the day than
\* midnight, so a row dated `days` days ago is before the cutoff
check_serp_volatility(checked_keywords, days, read_raises) ==
    IF ~rankings_file.some
    THEN {[volatility |-> << >>, log |-> << "No historical ranking data available" >>]}
    ELSE IF read_raises \/ ReadRaises(rankings_file.value)
    THEN {[volatility |-> << >>, log |-> << "Error reading rankings file" >>]}
    ELSE LET InWindow(row) ==
                 /\ row.keyword \in Range(checked_keywords)
                 /\ row.date > today - days
             rankings_df == SelectSeq(read_csv(rankings_file.value), InWindow)
         IN  {[volatility |-> v, log |-> << >>] :
                 v \in VolatilityOf(checked_keywords, rankings_df, << >>)}

\* last day, most tracking calls of a run
MaxDay == 2

MaxTrackings == 2

TrackKeywordPool == {"ai recruiting", "ats software"}

\* keyword lists: none, one keyword, one keyword twice, two keywords
TrackLists ==
    {<< >>, << "ai recruiting" >>, << "ai recruiting", "ai recruiting" >>,
     << "ai recruiting", "ats software" >>}

\* a list longer than the 30 keywords tracked
LongTrackList ==
    [i \in 1..31 |-> IF i % 2 = 1 THEN "ai recruiting" ELSE "ats software"]

\* the (keywords, update) arguments tried; the long list is tracked without
\* saving
TrackArgs ==
    {[keywords |-> l, update |-> u] : l \in TrackLists, u \in BOOLEAN}
    \cup {[keywords |-> LongTrackList, update |-> FALSE]}

\* what get_serp gives for a keyword: it raises, or results without or
\* with one of the own domain
TrackSerpPool ==
    { "raises",
      << [type |-> "organic", url |-> "https://www.comp.com/a"] >>,
      << [type |-> "featured_snippet"],
         [type |-> "organic", url |-> "https://asendia.ai/blog"] >> }

\* the (keywords, days) arguments of check_serp_volatility tried
CheckArgs ==
    {[keywords |-> l, days |-> d] :
        l \in {<< "ai recruiting" >>, << "ats software", "ai recruiting", "ats software" >>},
        d \in {1, 7}}

\* OpportunityTracker.__init__ on a new storage directory
InitTrack ==
    /\ rankings_file = NoneOpt
    /\ today = 1
    /\ tracked = NoneOpt
    /\ volatility = NoneOpt
    /\ user_profiles = NoneOpt
    /\ nlp = FALSE
    /\ sentence_model = FALSE
    /\ similarity = NoSimilarity
    /\ keywords = << >>
    /\ keywords_df = << >>
    /\ call = NoneOpt
    /\ outcome = "none"
    /\ log = << >>
    /\ classified = NoneOpt
    /\ competitors = << >>
    /\ scored = NoneOpt
    /\ top_keywords = NoneOpt
    /\ normalized = << >>
    /\ gap = NoneOpt
    /\ InitMore

Trackings == IF tracked.some THEN tracked.value.trackings ELSE 0

TrackKeywordRankings ==
    /\ ~volatility.some
    /\ Trackings < MaxTrackings
    /\ \E args \in TrackArgs :
          \E serps \in [Range(args.keywords) -> TrackSerpPool],
             read_raises \in (IF args.update /\ rankings_file.some
                              THEN BOOLEAN ELSE {FALSE}) :
              LET result == track_keyword_rankings(args.keywords, args.update, serps,
                                                   read_raises)
              IN  /\ rankings_file' = result.file
                  /\ tracked' = Some([keywords |-> args.keywords, update |-> args.update,
                                      serps |-> serps, date |-> today,
                                      rankings_df |-> result.rankings_df,
                                      returned |-> result.returned, log |-> result.log,
                                      trackings |-> Trackings + 1])
    /\ UNCHANGED << user_profiles, nlp, sentence_model, similarity, keywords, keywords_df,
                    call, outcome, log, classified, competitors, scored, top_keywords,
                    normalized, gap, today, volatility, more >>

\* a day passes between two runs
NextDay ==
    /\ ~volatility.some
    /\ tracked.some
    /\ today < MaxDay
    /\ today' = today + 1
    /\ UNCHANGED << user_profiles, nlp, sentence_model, similarity, keywords, keywords_df,
                    call, outcome, log, classified, competitors, scored, top_keywords,
                    normalized, gap, rankings_file, tracked, volatility, more >>

\* each run checks the volatility once, at its end
CheckSerpVolatility ==
    /\ ~volatility.some
    /\ \E args \in CheckArgs,
          read_raises \in (IF rankings_file.some THEN BOOLEAN ELSE {FALSE}) :
          \E result \in check_serp_volatility(args.keywords, args.days, read_raises) :
              volatility' = Some([keywords |-> args.keywords, days |-> args.days,
                                  volatility |-> result.volatility, log |-> result.log])
    /\ UNCHANGED << user_profiles, nlp, sentence_model, similarity, keywords, keywords_df,
                    call, outcome, log, classified, competitors, scored, top_keywords,
                    normalized, gap, rankings_file, today, tracked, more >>

NextTrack == TrackKeywordRankings \/ NextDay \/ CheckSerpVolatility

SpecTrack == InitTrack /\ [][NextTrack]_vars

(***************************************************************************)
(* SerpAnalysisClient.get_serp (utils/api_clients.py): the cache is a dict *)
(* from f"{query}_{num_results}" to the results stored.  What the lookup   *)
(* gives is the search's answer at that moment: the mock shuffles the      *)
(* query's words into the titles, so two lookups of one query differ.      *)
(***************************************************************************)
\* cache_key = f"{query}_{num_results}"
CacheKey(query, num_results) == query \o "_" \o ToString(num_results)

\* cache_key in self.cache
InDict(dict, key) == \E i \in 1..Len(dict) : dict[i].key = key

\* self.cache[cache_key]
GetItem(dict, key) == dict[CHOOSE i \in 1..Len(dict) : dict[i].key = key].value

\* a client that looks up every time
NeverCached(cache_flag, cache_key) == FALSE

\* line 240: cache and cache_key in self.cache
Cached(cache_flag, cache_key) == cache_flag /\ InDict(serp_cache, cache_key)

\* SerpAnalysisClient.get_serp; lookup is what lines 248-291 build, or
\* "raises" when they raise
get_serp(query, num_results, cache_flag, lookup) ==
    LET cache_key == CacheKey(query, num_results)
        issue == [query |-> query, num_results |-> num_results]
    IN  IF Cached(cache_flag, cache_key)
        THEN [result |-> GetItem(serp_cache, cache_key), cache |-> serp_cache,
              issued |-> serp_issued, from_cache |-> TRUE]
        ELSE IF lookup = "raises"
        THEN [result |-> << >>, cache |-> serp_cache,
              issued |-> Append(serp_issued, issue), from_cache |-> FALSE]
        ELSE [result |-> lookup,
              cache |-> IF cache_flag THEN SetItem(serp_cache, cache_key, lookup)
                        ELSE serp_cache,
              issued |-> Append(serp_issued, issue), from_cache |-> FALSE]

\* most get_serp calls of a run
MaxCalls == 3

\* queries: one is the cache key of the other with 10 results
SerpQueries == {"ats", "ats_10"}

\* num_results: the default, and what the tracker asks for
NumResults == {10, 50}

\* what a lookup gives: it raises, or the results with the words of the
\* query shuffled one way or the other
LookupPool ==
    { "raises",
      << [position |-> 1, title |-> "Ats Software software ats", type |-> "organic"] >>,
      << [position |-> 1, title |-> "Ats Software ats software", type |-> "organic"],
         [title |-> "What is ats software?", type |-> "featured_snippet"] >> }

\* a new SerpAnalysisClient
InitSerp ==
    /\ user_profiles = NoneOpt
    /\ nlp = FALSE
    /\ sentence_model = FALSE
    /\ similarity = NoSimilarity
    /\ keywords = << >>
    /\ keywords_df = << >>
    /\ call = NoneOpt
    /\ outcome = "none"
    /\ log = << >>
    /\ classified = NoneOpt
    /\ competitors = << >>
    /\ scored = NoneOpt
    /\ InitOthers

Calls == IF serp_call.some THEN serp_call.value.calls ELSE 0

GetSerp ==
    /\ Calls < MaxCalls
    /\ \E query \in SerpQueries, num_results \in NumResults, cache_flag \in BOOLEAN :
          \E lookup \in (IF Cached(cache_flag, CacheKey(query, num_results))
                         THEN {"raises"} ELSE LookupPool) :
              LET got == get_serp(query, num_results, cache_flag, lookup)
              IN  /\ serp_cache' = got.cache
                  /\ serp_issued' = got.issued
                  /\ serp_call' = Some([query |-> query, num_results |-> num_results,
                                        cache |-> cache_flag, result |-> got.result,
                                        from_cache |-> got.from_cache,
                                        calls |-> Calls + 1])
    /\ UNCHANGED << user_profiles, nlp, sentence_model, similarity, keywords, keywords_df,
                    call, outcome, log, classified, competitors, scored, top_keywords,
                    normalized, gap, rankings_file, today, tracked, volatility,
                    executor, top_content, fetched,
          requested, results >>

NextSerp == GetSerp

SpecSerp == InitSerp /\ [][NextSerp]_vars

(***************************************************************************)
(* CompetitorAuditor.get_top_content step by step: executor.map submits    *)
(* one task per row of top_pages['url'], in order; three workers take the  *)
(* tasks from the queue and finish them in any order; the results are      *)
(* collected from the futures in the order of submission.                  *)
(***************************************************************************)
\* str.replace(old, new) for a one-character old
RECURSIVE Replace(_, _, _)
Replace(s, old, new) ==
    IF Len(s) = 0 THEN ""
    ELSE (IF Char(s, 1) = old THEN new ELSE Char(s, 1)) \o Replace(Rest(s, 2), old, new)

\* url.split('/')[-1]
RECURSIVE LastSegment(_)
LastSegment(url) ==
    IF ~Contains(url, "/") THEN url
    ELSE LastSegment(Rest(url, 2))

\* KeywordDataClient.get_url_organic_keywords(url) with limit=20: the ten
\* keywords made from the last segment of the url
get_url_organic_keywords(url) ==
    LET path == Replace(LastSegment(url), "-", " ")
    IN  << path, path \o " guide", path \o " tutorial",
           "how to " \o path, "what is " \o path, "why use " \o path,
           path \o " best practices", path \o " examples", path \o " benefits",
           path \o " alternatives" >>

\* ThreadPoolExecutor(max_workers=3)
max_workers == 3

\* collecting the results in the order the tasks finished
ResultsAsCompleted(pool) ==
    [i \in 1..Len(pool.completed) |-> pool.futures[pool.completed[i]].value]

\* list(executor.map(...)): the results of the futures in the order of
\* submission
MapResults(pool) == [i \in 1..Len(pool.futures) |-> pool.futures[i].value]

\* lines 60-65: the keywords and keyword_count columns added to top_pages
WithKeywords(top_pages, page_keywords) ==
    [i \in 1..Len(top_pages) |->
        [url |-> top_pages[i].url, traffic |-> top_pages[i].traffic,
         keywords |-> page_keywords[i], keyword_count |-> Len(page_keywords[i])]]

\* most pages get_top_pages gives
MaxPages == 4

PageUrls ==
    << "https://comp.com/blog/ai-recruiting", "https://comp.com/pricing",
       "https://comp.com/blog/talent-acquisition" >>

\* pages in the order of their traffic; beyond the third the urls repeat
PageList ==
    [i \in 1..MaxPages |-> [url |-> PageUrls[((i - 1) % 3) + 1], traffic |-> 2000 - 100 * i]]

\* what get_top_pages gives: slices of PageList, and the empty frame of
\* its failure
PageFrames ==
    {SubSeq(PageList, a, b) : a \in 1..MaxPages, b \in 0..MaxPages}

\* CompetitorAuditor.__init__, then get_top_content up to line 54:
\* top_pages is there and the tasks are submitted; fetch tells for which
\* urls the keyword client finds keywords, for the others it logs the
\* error and gives []
InitContent ==
    /\ \E top_pages \in PageFrames, found \in [Range(PageUrls) -> BOOLEAN] :
          executor = Some([top_pages |-> top_pages,
                           fetch |-> [u \in Range(PageUrls) |->
                                         IF found[u] THEN get_url_organic_keywords(u)
                                         ELSE << >>],
                           next |-> 1,
                           running |-> {},
                           futures |-> [i \in 1..Len(top_pages) |-> NoneOpt],
                           completed |-> << >>])
    /\ top_content = NoneOpt
    /\ fetched = NoneOpt
    /\ requested = NoneOpt
    /\ results = << >>
    /\ serp_cache = << >>
    /\ serp_issued = << >>
    /\ serp_call = NoneOpt
    /\ competitors = << "comp.com" >>
    /\ user_profiles = NoneOpt
    /\ nlp = FALSE
    /\ sentence_model = FALSE
    /\ similarity = NoSimilarity
    /\ keywords = << >>
    /\ keywords_df = << >>
    /\ call = NoneOpt
    /\ outcome = "none"
    /\ log = << >>
    /\ classified = NoneOpt
    /\ scored = NoneOpt
    /\ top_keywords = NoneOpt
    /\ normalized = << >>
    /\ gap = NoneOpt
    /\ rankings_file = NoneOpt
    /\ today = 1
    /\ tracked = NoneOpt
    /\ volatility = NoneOpt

\* a free worker takes the next task of the queue
StartTask ==
    /\ executor.some
    /\ ~top_content.some
    /\ executor.value.next <= Len(executor.value.top_pages)
    /\ Cardinality(executor.value.running) < max_workers
    /\ executor' = Some([executor.value EXCEPT
                            !.running = @ \cup {executor.value.next},
                            !.next = @ + 1])
    /\ UNCHANGED << user_profiles, nlp, sentence_model, similarity, keywords, keywords_df,
                    call, outcome, log, classified, competitors, scored, others,
                    serp_cache, serp_issued, serp_call, top_content, fetched, requested,
                    results >>

\* a worker finishes its task: the future holds the keywords of the
\* task's url
FinishTask ==
    /\ executor.some
    /\ ~top_content.some
    /\ \E i \in executor.value.running :
          executor' = Some([executor.value EXCEPT
                               !.running = @ \ {i},
                               !.futures[i] =
                                   Some(executor.value.fetch[executor.value.top_pages[i].url]),
                               !.completed = Append(@, i)])
    /\ UNCHANGED << user_profiles, nlp, sentence_model, similarity, keywords, keywords_df,
                    call, outcome, log, classified, competitors, scored, others,
                    serp_cache, serp_issued, serp_call, top_content, fetched, requested,
                    results >>

\* lines 56-71: the results are all there; an empty top_pages has no url
\* column, the KeyError is logged and the empty frame returned
Collect ==
    /\ executor.some
    /\ ~top_content.some
    /\ \A i \in 1..Len(executor.value.futures) : executor.value.futures[i].some
    /\ IF Len(executor.value.top_pages) = 0
       THEN /\ top_content' = Some(<< >>)
            /\ log' = Append(log, "Error getting top content")
       ELSE /\ top_content' = Some(WithKeywords(executor.value.top_pages,
                                               MapResults(executor.value)))
            /\ log' = log
    /\ UNCHANGED << user_profiles, nlp, sentence_model, similarity, keywords, keywords_df,
                    call, outcome, classified, competitors, scored, others,
                    serp_cache, serp_issued, serp_call, executor, fetched, requested,
                    results >>

NextContent == StartTask \/ FinishTask \/ Collect

SpecContent == InitContent /\ [][NextContent]_vars

(***************************************************************************)
(* KeywordClusterer.fetch_keywords (modules/keyword_clustering.py) with    *)
(* the mock providers of utils/api_clients.py.  The rows keep the keyword  *)
(* text and the column that tells the provider; the random metrics, which  *)
(* nothing here reads, are left out.                                       *)
(***************************************************************************)
\* the keyword patterns of get_organic_keywords taken into account
MaxPatterns == 3

\* keyword_patterns, lines 36-41
keyword_patterns ==
    << "recruitment", "hiring", "talent acquisition", "applicant tracking",
       "recruitment software", "hiring platform", "job application", "candidate screening",
       "AI recruiter", "recruitment automation", "talent pool", "interview scheduling",
       "candidate experience", "talent management", "resume parsing", "job matching" >>

\* question_words of get_organic_keywords, line 71
organic_question_words == << "how to", "what is", "why use", "benefits of", "best" >>

\* domain.split('.')[0]
FirstLabel(domain) ==
    IF Contains(domain, ".") THEN SubSeq(domain, 1, Find(domain, ".", 1) - 1) ELSE domain

\* KeywordDataClient.get_organic_keywords(domain): three rows per pattern;
\* choice[p] is the question word random.choice picks for pattern p
RECURSIVE OrganicRows(_, _, _)
OrganicRows(patterns, domain, choice) ==
    IF Len(patterns) = 0 THEN << >>
    ELSE LET pattern == Head(patterns)
         IN  << [keyword |-> pattern \o " for " \o FirstLabel(domain),
                 trend |-> "0,0,0,0,0,0,0,0,0,0,0,+1"],
                [keyword |-> pattern, trend |-> "0,0,0,0,0,0,0,0,0,0,0,+1"],
                [keyword |-> choice[pattern] \o " " \o pattern,
                 trend |-> "0,0,0,0,0,0,0,0,0,0,0,+1"] >>
             \o OrganicRows(Tail(patterns), domain, choice)

\* KeywordSuggestionClient.get_keyword_ideas(keyword): the nine variations
get_keyword_ideas(keyword) ==
    << [keyword |-> "best " \o keyword],
       [keyword |-> "top " \o keyword],
       [keyword |-> keyword \o " software"],
       [keyword |-> keyword \o " tools"],
       [keyword |-> "what is " \o keyword],
       [keyword |-> "how to " \o keyword],
       [keyword |-> "best " \o keyword \o " software"],
       [keyword |-> keyword \o " for healthcare"],
       [keyword |-> keyword \o " for tech"] >>

\* lines 69-75: the ideas of each seed keyword in turn
RECURSIVE Ideas(_, _)
Ideas(seed_keywords, ideas_fail) ==
    IF Len(seed_keywords) = 0 THEN << >>
    ELSE (IF Head(seed_keywords) \in ideas_fail THEN << >>
          ELSE get_keyword_ideas(Head(seed_keywords)))
         \o Ideas(Tail(seed_keywords), ideas_fail)

\* drop_duplicates(subset=['keyword']): the first row of each keyword
RECURSIVE drop_duplicate_keywords(_)
drop_duplicate_keywords(df) ==
    IF Len(df) = 0 THEN << >>
    ELSE LET init == drop_duplicate_keywords(SubSeq(df, 1, Len(df) - 1))
             last == df[Len(df)]
         IN  IF \E i \in 1..Len(init) : init[i].keyword = last.keyword
             THEN init
             ELSE Append(init, last)

\* KeywordClusterer.fetch_keywords; organic is what get_organic_keywords
\* gives (no rows when it fails), ideas_fail the seeds for which
\* get_keyword_ideas fails and gives the empty frame
fetch_keywords(seed_keywords, organic, ideas_fail) ==
    drop_duplicate_keywords(FillColumns(organic \o Ideas(seed_keywords, ideas_fail)))

\* seed lists: none, the test's, a keyword no provider lists, one of the
\* provider's own question keywords, a seed twice
SeedLists ==
    { << >>,
      << "recruitment", "hiring", "talent acquisition" >>,
      << "ats software" >>,
      << "how to hiring", "recruitment" >>,
      << "onboarding", "onboarding" >> }

\* KeywordClusterer.__init__ as main.run_keyword_clustering calls it
InitFetch ==
    /\ Construct(MainClusterer)
    /\ keywords = << >>
    /\ keywords_df = << >>
    /\ call = NoneOpt
    /\ outcome = "none"
    /\ log = << >>
    /\ classified = NoneOpt
    /\ competitors = << >>
    /\ scored = NoneOpt
    /\ InitOthers

FetchKeywords ==
    /\ ~fetched.some
    /\ \E seed_keywords \in SeedLists,
          choice \in [Range(SubSeq(keyword_patterns, 1, MaxPatterns))
                         -> Range(organic_question_words)],
          organic_fails \in BOOLEAN :
          \E ideas_fail \in SUBSET Range(seed_keywords) :
              LET organic == IF organic_fails THEN << >>
                             ELSE OrganicRows(SubSeq(keyword_patterns, 1, MaxPatterns),
                                              Domain, choice)
                  df == fetch_keywords(seed_keywords, organic, ideas_fail)
              IN  /\ fetched' = Some([seed_keywords |-> seed_keywords, df |-> df])
                  /\ keywords_df' = df
                  /\ keywords' = Col(df, "keyword")
    /\ UNCHANGED << user_profiles, nlp, sentence_model, similarity, call, outcome, log,
                    classified, competitors, scored, others, serp_cache, serp_issued,
                    serp_call, executor, top_content, requested, results >>

NextFetch == FetchKeywords

SpecFetch == InitFetch /\ [][NextFetch]_vars

(***************************************************************************)
(* The number of clusters cluster_keywords asks of KMeans, for batches of  *)
(* every size                                                              *)
(***************************************************************************)
\* largest batch
MaxCount == 125

\* the n_clusters arguments: none, or a number
HintArgs == {NoneOpt, Some(2), Some(15)}

InitEstimate ==
    /\ Construct(MainClusterer)
    /\ keywords = << >>
    /\ keywords_df = << >>
    /\ call = NoneOpt
    /\ outcome = "none"
    /\ log = << >>
    /\ classified = NoneOpt
    /\ competitors = << >>
    /\ scored = NoneOpt
    /\ InitOthers

\* lines 186-192 of a call with method kmeans on a batch of n keywords
RequestClusters ==
    /\ \E n \in 1..MaxCount, n_clusters \in HintArgs :
          requested' = Some([n |-> n, n_clusters |-> n_clusters,
                             k |-> RequestedClusters(n_clusters, n)])
    /\ UNCHANGED << user_profiles, nlp, sentence_model, similarity, keywords, keywords_df,
                    call, outcome, log, classified, competitors, scored, others,
                    serp_cache, serp_issued, serp_call, executor, top_content, fetched,
                    results >>

NextEstimate == RequestClusters

SpecEstimate == InitEstimate /\ [][NextEstimate]_vars

(***************************************************************************)
(* test_cluster_keywords: cluster_keywords called on one test_df with one  *)
(* method after the other.  cluster_keywords assigns the columns of the    *)
(* frame it is given and returns that frame: a result is a reference to    *)
(* the caller's frame, and shows what the frame holds.                     *)
(***************************************************************************)
\* most calls of a test
MaxClusterings == 2

\* the calls of the test, in order
TestCalls ==
    << [n_clusters |-> Some(2), method |-> "kmeans"],
       [n_clusters |-> NoneOpt, method |-> "dbscan"],
       [n_clusters |-> NoneOpt, method |-> "graph"],
       [n_clusters |-> Some(3), method |-> "kmeans"] >>

\* the frame a returned reference stands for
Deref(ref) == keywords_df

\* setUp and the test_df of the test, cut to its first keywords
InitTwice ==
    /\ \E c \in {d \in Clusterers : ~d.user_profiles.some} : Construct(c)
    /\ \E n \in 1..MaxBatch : keywords = SubSeq(TopKeywordList, 1, n)
    /\ keywords_df = Frame(keywords)
    /\ classified = NoneOpt
    /\ competitors = << >>
    /\ scored = NoneOpt
    /\ call = NoneOpt
    /\ outcome = "none"
    /\ log = << >>
    /\ InitOthers

\* result = self.clusterer.cluster_keywords(test_df, ...)
ClusterKeywordsAgain ==
    /\ Len(results) < MaxClusterings
    /\ outcome \in {"none", "returned"}
    /\ LET args == TestCalls[Len(results) + 1]
       IN  \E run \in cluster_keywords(keywords_df, args.n_clusters, args.method) :
              /\ keywords_df' = run.df
              /\ outcome' = run.outcome
              /\ log' = log \o run.log
              /\ call' = Some(args)
              /\ results' = IF run.outcome = "returned"
                            THEN Append(results, [ref |-> "keywords_df", args |-> args,
                                                  cluster |-> Col(run.df, "cluster")])
                            ELSE results
    /\ UNCHANGED << user_profiles, nlp, sentence_model, similarity, keywords, classified,
                    competitors, scored, others, serp_cache, serp_issued, serp_call,
                    executor, top_content, fetched, requested >>

NextTwice == ClusterKeywordsAgain

SpecTwice == InitTwice /\ [][NextTwice]_vars

(***************************************************************************)
(* Properties of cluster_keywords                                          *)
(***************************************************************************)
Called == call.some

Returned == call.some /\ outcome = "returned"

HasCol(col) == col \in Columns(keywords_df)

Logged(message) == \E i \in 1..Len(log) : log[i] = message

EmbeddingFailed == Logged("Error creating embeddings")

ClusteringFailed ==
    \/ Logged("Error with KMeans clustering")
    \/ Logged("Error with DBSCAN clustering")
    \/ Logged("Error with graph-based clustering")

ClusteringMethods == {"kmeans", "dbscan", "graph"}

ResultColumns == {"cluster", "intent", "user_profile", "cluster_label"}

ClusterIds == Range(Col(keywords_df, "cluster"))

GroupSize(cluster_id) == Cardinality(Members(keywords_df, cluster_id))

\* a hint KMeans can take: none, or a positive number
UsableHint == ~call.value.n_clusters.some \/ call.value.n_clusters.value >= 1

\* C1: for every non-empty batch and each method in {kmeans, dbscan,
\* graph} (the n_clusters hint absent or positive), the call returns a
\* result that has exactly one row per input keyword, in input order, each
\* row carrying one integer cluster id.
C1_OneRowPerKeyword ==
    (Called /\ Len(keywords) > 0 /\ call.value.method \in ClusteringMethods
        /\ UsableHint)
    => /\ outcome = "returned"
       /\ Col(keywords_df, "keyword") = keywords
       /\ \A i \in 1..Len(keywords_df) :
             /\ "cluster" \in DOMAIN keywords_df[i]
             /\ keywords_df[i].cluster \in Int

\* C2: the call never raises: for every non-empty batch, method,
\* n_clusters hint and profile configuration it returns a result that has
\* the cluster, intent, user_profile and cluster_label columns (stated for
\* the three documented methods and the usable hints, the calls of the
\* test and of main.py).
C2_NeverRaises ==
    (Called /\ Len(keywords) > 0 /\ call.value.method \in ClusteringMethods
        /\ UsableHint)
    => /\ outcome = "returned"
       /\ ResultColumns \subseteq Columns(keywords_df)

\* C3: when the embedding step or the clustering step raises, the call
\* still returns, and every keyword has a cluster id and a cluster label.
C3_FallbackReturns ==
    (Called /\ (EmbeddingFailed \/ ClusteringFailed))
    => /\ outcome = "returned"
       /\ Col(keywords_df, "keyword") = keywords
       /\ {"cluster", "cluster_label"} \subseteq Columns(keywords_df)

C5_DenseIds ==
    (Returned /\ HasCol("cluster")) => Dense(Col(keywords_df, "cluster"))

\* C5 amended: in every result the cluster ids are integers from -1 up;
\* -1 occurs only when DBSCAN itself produced the labels; the ids other
\* than -1 are exactly 0..m-1 when DBSCAN or the graph communities produced
\* them (KMeans and the random fallbacks may leave ids unused).
C5_IdsInRange ==
    (Returned /\ HasCol("cluster"))
    => /\ \A id \in ClusterIds : id \in Int /\ id >= -1
       /\ -1 \in ClusterIds => call.value.method = "dbscan" /\ log = << >>
       /\ (call.value.method \in {"dbscan", "graph"} /\ log = << >>)
             => Dense(Col(keywords_df, "cluster"))

\* the graph communities gave two or more groups
C5_Witness ==
    /\ Returned
    /\ call.value.method = "graph" /\ log = << >>
    /\ Cardinality(ClusterIds) >= 2

\* the labelling rule of the sentinel group and of the groups of one
LabelRule ==
    \A i \in 1..Len(keywords_df) :
        /\ keywords_df[i].cluster = -1 => keywords_df[i].cluster_label = "Unclustered"
        /\ (keywords_df[i].cluster # -1 /\ GroupSize(keywords_df[i].cluster) = 1)
              => keywords_df[i].cluster_label = keywords_df[i].keyword

\* C6 as claimed: in every result the keywords with cluster id -1 are
\* labelled "Unclustered" and every other group of one keyword is labelled
\* with that keyword, on the normal path and on the fallback paths.
C6_Labels ==
    (Returned /\ HasCol("cluster_label")) => LabelRule

\* C6 amended: the rule holds in every result whose embeddings were
\* created (the normal path and the clustering fallbacks); when the
\* embedding step failed every keyword is labelled "Cluster <id>", groups
\* of one included.
C6_LabelsOnceEmbedded ==
    (Returned /\ HasCol("cluster_label"))
    => IF EmbeddingFailed
       THEN \A i \in 1..Len(keywords_df) :
               keywords_df[i].cluster_label
                   = "Cluster " \o ToString(keywords_df[i].cluster)
       ELSE LabelRule

\* a result with a group of one labelled by its keyword next to a larger
\* group, reached through a clustering fallback
C6_Witness ==
    /\ Returned /\ HasCol("cluster_label") /\ ClusteringFailed
    /\ \E i, j \in 1..Len(keywords_df) :
          /\ GroupSize(keywords_df[i].cluster) = 1
          /\ keywords_df[i].cluster_label = keywords_df[i].keyword
          /\ GroupSize(keywords_df[j].cluster) > 1

\* a result whose sentinel group has one member, labelled "Unclustered"
C6_SentinelWitness ==
    /\ Returned /\ HasCol("cluster_label")
    /\ Len(keywords_df) = 1
    /\ keywords_df[1].cluster = -1
    /\ keywords_df[1].cluster_label = "Unclustered"

(***************************************************************************)
(* Properties of the classifiers                                           *)
(***************************************************************************)
Assigned == classified.some /\ classified.value.op = "_assign_user_profile"

Detected == classified.some /\ classified.value.op = "_detect_intent"

\* the configured profile names
Configured == IF user_profiles.some THEN Range(user_profiles.value) ELSE {}

\* C7: with an empty or absent configured-profile set the profile assigned
\* is "general", and in every configuration it is a configured profile
\* name or "general".
C7_GeneralWithoutProfiles ==
    Assigned
    => /\ NoProfiles(user_profiles) => classified.value.result = "general"
       /\ classified.value.result \in Configured \cup {"general"}

\* the configured profiles the table knows, each with its marker count in
\* the keyword of the call (in tenths, as the scores of the code)
Candidates == {e \in Range(profile_keywords) : e.profile \in Configured}

CountOf(e) == MarkerScore(lower(classified.value.keyword), e.markers)

TopCandidates == {e \in Candidates : \A o \in Candidates : CountOf(o) <= CountOf(e)}

SeveralProfilesMatch ==
    Cardinality({e \in Candidates : CountOf(e) > 0}) >= 2

PositionIn(seq, v) == Min({i \in 1..Len(seq) : seq[i] = v})

TablePosition(e) == Min({i \in 1..Len(profile_keywords) : profile_keywords[i] = e})

\* C8 as claimed: when the keyword has markers of several configured
\* profiles the result is a profile with the highest marker count, and
\* among those with that count the one that comes first in user_profiles.
C8_TieByConfiguredOrder ==
    (Assigned /\ SeveralProfilesMatch)
    => \E e \in TopCandidates :
          /\ classified.value.result = e.profile
          /\ \A o \in TopCandidates :
                PositionIn(user_profiles.value, e.profile)
                    <= PositionIn(user_profiles.value, o.profile)

\* C8 amended: when the keyword has markers of several configured profiles
\* the result is a profile with the highest marker count, and among those
\* with that count the one that comes first in the built-in marker table
\* (recruiter, talent_acquisition, hr_manager, candidate), whatever the
\* order of user_profiles.
C8_TieByTableOrder ==
    (Assigned /\ SeveralProfilesMatch)
    => \E e \in TopCandidates :
          /\ classified.value.result = e.profile
          /\ \A o \in TopCandidates : TablePosition(e) <= TablePosition(o)

\* two configured profiles tie on the count, the list names them in the
\* order opposite to the table's, and the table's first is returned
C8_Witness ==
    /\ Assigned /\ SeveralProfilesMatch
    /\ \E e, o \in TopCandidates :
          /\ TablePosition(e) < TablePosition(o)
          /\ PositionIn(user_profiles.value, o.profile)
                < PositionIn(user_profiles.value, e.profile)
          /\ classified.value.result = e.profile

\* a marker of the set occurs in the lowercased keyword
HasMarker(keyword, markers) == \E m \in markers : Contains(lower(keyword), m)

\* the reference classification of C9
ReferenceIntent(keyword) ==
    IF HasMarker(keyword, {"what", "how", "why", "guide", "tutorial", "tips", "learn"})
    THEN "informational"
    ELSE IF HasMarker(keyword, {"login", "sign in", "website", "official", "download"})
    THEN "navigational"
    ELSE IF HasMarker(keyword, {"best", "top", "review", "compare", "vs", "versus"})
    THEN "commercial"
    ELSE IF HasMarker(keyword, {"buy", "price", "deal", "discount", "purchase", "free",
                                "trial"})
    THEN "transactional"
    ELSE "informational"

\* C9: the intent detected is the first of informational, navigational,
\* commercial, transactional that has a marker occurring in the lowercased
\* keyword, and informational when none has; "how to hire developers" is
\* informational and "best ats software" commercial.
C9_IntentPriority ==
    Detected
    => /\ classified.value.result = ReferenceIntent(classified.value.keyword)
       /\ classified.value.keyword = "how to hire developers"
             => classified.value.result = "informational"
       /\ classified.value.keyword = "best ats software"
             => classified.value.result = "commercial"

\* a keyword with an informational and a commercial marker was classified
\* informational
C9_Witness ==
    /\ Detected
    /\ HasMarker(classified.value.keyword, {"how"})
    /\ HasMarker(classified.value.keyword, {"best"})
    /\ classified.value.result = "informational"

(***************************************************************************)
(* Properties of the opportunity scores                                    *)
(***************************************************************************)
AuditorScored == scored.some /\ scored.value.op = "_calculate_opportunity"

TrackerScored == scored.some /\ scored.value.op = "identify_weekly_opportunities"

\* C10: the opportunity score is within [0, 100] for every combination of
\* SERP flags, ranking domains and competitors, and in the tracker for any
\* trend value, negative or huge (the tracker's scores are in tenths).
C10_ScoreInRange ==
    /\ AuditorScored => scored.value.score \in 0..100
    /\ TrackerScored =>
          \A i \in 1..Len(scored.value.opportunities) :
              scored.value.opportunities[i].opportunity_score \in 0..1000

\* the tracker scored a keyword whose trend value is hugely negative, and
\* the score is 0
C10_Witness ==
    /\ TrackerScored
    /\ \E i \in 1..Len(scored.value.opportunities) :
          /\ scored.value.opportunities[i].trend_data.trend_score < -1000
          /\ scored.value.opportunities[i].opportunity_score = 0

\* the auditor scored five competitor rankings with a featured snippet and
\* people-also-ask, and the score is 100
C10_CapWitness ==
    /\ AuditorScored
    /\ scored.value.features.featured_snippet /\ scored.value.features.people_also_ask
    /\ ~scored.value.features.knowledge_panel
    /\ competitors = << "comp.com" >>
    /\ Len(scored.value.ranking_domains) = 5
    /\ \A i \in 1..5 : scored.value.ranking_domains[i] = "www.comp.com"
    /\ scored.value.score = 100

\* line 247's test: some ranking domain contains the own domain
OwnDomainRanks(ranking_domains) ==
    \E i \in 1..Len(ranking_domains) : Contains(ranking_domains[i], Domain)

\* the netlocs under which the own domain can rank
OwnNetlocs == {d \in DomainPool : Contains(d, Domain)}

\* C11: the score is monotonic: the same inputs with featured_snippet
\* switched from false to true never score lower, and the same inputs with
\* the own domain made to rank never score higher, in the auditor (one more
\* ranking domain, the own) and in the tracker (one more result, of the
\* own domain), after clamping.
C11_Monotonic ==
    /\ AuditorScored =>
          LET features == scored.value.features
              ranking_domains == scored.value.ranking_domains
          IN  /\ ~features.featured_snippet =>
                    _calculate_opportunity([features EXCEPT !.featured_snippet = TRUE],
                                           ranking_domains) >= scored.value.score
              /\ ~OwnDomainRanks(ranking_domains) =>
                    \A d \in OwnNetlocs :
                        _calculate_opportunity(features, Append(ranking_domains, d))
                            <= scored.value.score
    /\ TrackerScored =>
          \A i \in 1..Len(scored.value.opportunities) :
              LET o == scored.value.opportunities[i]
                  serp_results == scored.value.serps[o.keyword]
              IN  /\ ~o.features.featured_snippet =>
                        Opportunity(o.keyword,
                                    Append(serp_results,
                                           [type |-> "featured_snippet",
                                            url |-> "https://www.comp.com/a"]),
                                    o.trend_data).opportunity_score >= o.opportunity_score
                  /\ ~o.already_ranking =>
                        Opportunity(o.keyword,
                                    Append(serp_results,
                                           [type |-> "organic",
                                            url |-> "https://asendia.ai/blog"]),
                                    o.trend_data).opportunity_score <= o.opportunity_score

\* the auditor scored inputs without a featured snippet and without the own
\* domain ranking, with a local pack and a competitor list that matches
\* every domain; the snippet would raise the score by 20 and the own domain
\* ranking would lower it by 10 only
C11_Witness ==
    /\ AuditorScored
    /\ competitors = << "" >>
    /\ ~scored.value.features.featured_snippet
    /\ scored.value.features.local_pack
    /\ ~OwnDomainRanks(scored.value.ranking_domains)
    /\ _calculate_opportunity([scored.value.features EXCEPT !.featured_snippet = TRUE],
                              scored.value.ranking_domains) = scored.value.score + 20
    /\ _calculate_opportunity(scored.value.features,
                              Append(scored.value.ranking_domains, Domain))
           = scored.value.score - 10

\* the tracker scored at the lower limit a keyword the own domain does not
\* rank for: ranking cannot lower the score further
C11_ClampWitness ==
    /\ TrackerScored
    /\ \E i \in 1..Len(scored.value.opportunities) :
          /\ ~scored.value.opportunities[i].already_ranking
          /\ scored.value.opportunities[i].opportunity_score = 0

\* C12: the two scoring paths use the same weights: with no knowledge
\* panel, no local pack, no competitors and a trend value of 0, the tracker
\* gives a keyword the score the auditor gives the same featured_snippet,
\* people_also_ask and already-ranking inputs (the tracker's score is in
\* tenths).
C12_SameWeights ==
    (TrackerScored /\ competitors = << >>) =>
        \A i \in 1..Len(scored.value.opportunities) :
            LET o == scored.value.opportunities[i]
            IN  o.trend_data.trend_score = 0 =>
                    o.opportunity_score
                        = 10 * _calculate_opportunity(
                                   [featured_snippet |-> o.features.featured_snippet,
                                    people_also_ask |-> o.features.people_also_ask,
                                    knowledge_panel |-> FALSE,
                                    local_pack |-> FALSE],
                                   IF o.already_ranking THEN << Domain >> ELSE << >>)

\* the competitors of the auditor's list that rank: those contained in
\* some ranking domain
CompetitorsRanking(ranking_domains) ==
    {competitors[c] : c \in {k \in 1..Len(competitors) :
                                \E i \in 1..Len(ranking_domains) :
                                    Contains(ranking_domains[i], competitors[k])}}

\* C13: the competitor bonus is 5 times the number of distinct competitor
\* domains that rank: the score is the one made of the base, the feature
\* adjustments, the own-domain penalties and 5 per competitor ranking,
\* however many times each competitor ranks.
C13_DistinctCompetitors ==
    AuditorScored =>
        LET features == scored.value.features
            ranking_domains == scored.value.ranking_domains
        IN  scored.value.score
                = Normalize(50 + (IF features.featured_snippet THEN 20 ELSE 0)
                               + (IF features.people_also_ask THEN 10 ELSE 0)
                               - (IF features.knowledge_panel THEN 15 ELSE 0)
                               - (IF features.local_pack
                                     /\ Domain \notin Range(ranking_domains)
                                  THEN 10 ELSE 0)
                               + 5 * Cardinality(CompetitorsRanking(ranking_domains))
                               - (IF OwnDomainRanks(ranking_domains) THEN 25 ELSE 0),
                            100)

\* C14: no score receives both the local-pack penalty and the
\* already-ranking penalty: when the own domain ranks, the local_pack flag
\* makes no difference to the score.
C14_NoDoublePenalty ==
    (AuditorScored /\ OwnDomainRanks(scored.value.ranking_domains)
                   /\ scored.value.features.local_pack) =>
        scored.value.score
            = _calculate_opportunity([scored.value.features EXCEPT !.local_pack = FALSE],
                                     scored.value.ranking_domains)

(***************************************************************************)
(* Properties of get_top_keywords_by_cluster                               *)
(***************************************************************************)
Selected == top_keywords.some

\* the value the returned mapping holds under a key; << >> stands for a
\* missing key only where the key is known to be there
ItemOf(dict, key) ==
    LET i == CHOOSE k \in 1..Len(dict) : dict[k].key = key
    IN  dict[i].value

HasKey(dict, key) == \E i \in 1..Len(dict) : dict[i].key = key

\* the label get_top_keywords_by_cluster files a cluster under
LabelOfCluster(cluster_id) ==
    LET cluster_df == ClusterFrame(keywords_df, cluster_id)
    IN  IF "cluster_label" \in Columns(cluster_df) THEN cluster_df[1].cluster_label
        ELSE "Cluster " \o ToString(cluster_id)

\* the keywords are those of rows of the cluster, each row used once, in
\* descending order of the metric, and no row left out has a higher value
\* than a row taken
IsTopOf(selection, cluster_df, metric, top_n) ==
    /\ Len(selection) = Min2(Len(cluster_df), top_n)
    /\ \E p \in Orders(Len(cluster_df)) :
          /\ \A i \in 1..Len(selection) : selection[i] = cluster_df[p[i]].keyword
          /\ \A i \in 1..(Len(cluster_df) - 1) :
                cluster_df[p[i]][metric] >= cluster_df[p[i + 1]][metric]

\* C15: with the metric column present, the returned mapping holds for
\* each cluster, under its label, the keywords of the cluster in descending
\* order of the metric, cut to the first top_n.
C15_TopByMetric ==
    (Selected /\ top_keywords.value.metric \in Columns(keywords_df)) =>
        \A cluster_id \in Range(Col(keywords_df, "cluster")) :
            /\ HasKey(top_keywords.value.result, LabelOfCluster(cluster_id))
            /\ IsTopOf(ItemOf(top_keywords.value.result, LabelOfCluster(cluster_id)),
                       ClusterFrame(keywords_df, cluster_id),
                       top_keywords.value.metric, top_keywords.value.top_n)

\* the example of the test: volumes [1000,800,600,500,400,300], clusters
\* [0,0,1,1,0,1], top_n = 2 give the 1000 and 800 keywords for Cluster 0 and
\* the 600 and 500 keywords for Cluster 1
C15_TestExample ==
    (Selected /\ keywords_df = TestFrame /\ top_keywords.value.metric = "volume"
              /\ top_keywords.value.top_n = 2) =>
        top_keywords.value.result
            = << [key |-> "Cluster 0",
                  value |-> << "recruitment software", "hiring software" >>],
                 [key |-> "Cluster 1",
                  value |-> << "applicant tracking", "recruitment CRM" >>] >>

\* C16: keywords of one cluster with equal metric values come out in their
\* input order: every entry of the mapping is what a stable descending
\* sort of some cluster's rows gives, cut to top_n.
C16_StableOrder ==
    (Selected /\ top_keywords.value.metric \in Columns(keywords_df)) =>
        \A i \in 1..Len(top_keywords.value.result) :
            \E cluster_id \in Range(Col(keywords_df, "cluster")) :
                /\ LabelOfCluster(cluster_id) = top_keywords.value.result[i].key
                /\ top_keywords.value.result[i].value
                       = Col(head(SortDescBy(ClusterFrame(keywords_df, cluster_id),
                                             top_keywords.value.metric),
                                  top_keywords.value.top_n),
                             "keyword")

(***************************************************************************)
(* Properties of preprocess_text                                           *)
(***************************************************************************)
\* C17: preprocess_text is idempotent: applied to its own result it gives
\* that result again, for every text, the empty one and None included.
C17_Idempotent ==
    Len(normalized) >= 3 => normalized[3] = normalized[2]

\* a text with a www. URL and an angle bracket has been preprocessed twice,
\* and the first pass changed it and left something
C17_Witness ==
    /\ Len(normalized) = 3
    /\ Contains(normalized[1], "www.")
    /\ Contains(normalized[1], "<")
    /\ normalized[2] # normalized[1]
    /\ normalized[2] # ""

\* None has been preprocessed twice
C17_NoneWitness ==
    /\ Len(normalized) = 3
    /\ normalized[1] = None
    /\ normalized[2] = ""

(***************************************************************************)
(* Properties of analyze_content_gap                                       *)
(***************************************************************************)
\* C18: on an auditor whose competitor list is empty, analyze_content_gap
\* returns an empty result, logs the warning, does not raise and issues no
\* provider lookup.
C18_EmptyCompetitors ==
    (gap.some /\ Len(competitors) = 0) =>
        /\ gap.value.outcome = "returned"
        /\ gap.value.rows = << >>
        /\ gap.value.log = << "No competitors specified for content gap analysis" >>
        /\ gap.value.lookups = << >>

\* the analysis ran without competitors while the providers had pages for
\* the own domain
C18_Witness ==
    /\ gap.some
    /\ competitors = << >>
    /\ gap.value.top_pages[Domain] # "fails"
    /\ gap.value.outcome = "returned"

(***************************************************************************)
(* Properties of the ranking tracker                                       *)
(***************************************************************************)
\* the keywords a call tracks: the first 30 of its list
TrackedOf(list) == SubSeq(list, 1, Min2(Len(list), 30))

\* a row is a failure placeholder: ranking 0, not in the top 100, with an
\* error marker
IsPlaceholder(row) ==
    /\ row.ranking = 0
    /\ ~row.in_top_100
    /\ "error" \in DOMAIN row
    /\ row.error # None

C19_LimitWitness ==
    /\ tracked.some
    /\ Len(tracked.value.keywords) = 31
    /\ \E k \in Range(tracked.value.keywords) : tracked.value.serps[k] = "raises"
    /\ Len(tracked.value.rankings_df) = 30

\* the rows of the store for a keyword within the last `days` days that
\* were fetched successfully
FetchedRows(keyword, days) ==
    LET Fetched(row) ==
            /\ row.keyword = keyword
            /\ row.date > today - days
            /\ ~IsPlaceholder(row)
    IN  SelectSeq(rankings_file.value, Fetched)

\* C20: failure placeholders are left out of the volatility: each
\* keyword's entry counts the observations of the window fetched
\* successfully and no others, and a keyword with fewer than two of them
\* has no entry.
C20_PlaceholdersExcluded ==
    (volatility.some /\ rankings_file.some) =>
        \A i \in 1..Len(volatility.value.volatility) :
            LET item == volatility.value.volatility[i]
            IN  item.value.data_points
                    = Len(FetchedRows(item.key, volatility.value.days))

(***************************************************************************)
(* Properties of the ranking-history store                                 *)
(***************************************************************************)
\* the rows of keyword_rankings.csv, none while the file does not exist
Store == IF rankings_file.some THEN rankings_file.value ELSE << >>

\* the tracking call that has just returned saved its result
Updated == tracked.some /\ tracked.value.update

\* C21: after any sequence of track_keyword_rankings calls with update=True,
\* starting from no store and whatever the keyword lists (repeated keywords
\* included), the store holds at most one row per (keyword, date)
C21_OneRowPerKey ==
    \A i, j \in 1..Len(Store) :
        (Store[i].keyword = Store[j].keyword /\ Store[i].date = Store[j].date) => i = j

\* a list with a repeated keyword has been tracked and saved
C21_Witness ==
    /\ Updated
    /\ \E i, j \in 1..Len(tracked.value.keywords) :
          i # j /\ tracked.value.keywords[i] = tracked.value.keywords[j]
    /\ Len(Store) > 0

\* C22: the store is append-only: every (keyword, date) row in the store
\* before a track_keyword_rankings call with update=True is in the store
\* with the same ranking after it, on every path, the one where reading or
\* merging the existing store fails included
C22_AppendOnly ==
    [][\A i \in 1..Len(Store) :
          /\ rankings_file'.some
          /\ \E j \in 1..Len(rankings_file'.value) :
                /\ rankings_file'.value[j].keyword = Store[i].keyword
                /\ rankings_file'.value[j].date = Store[i].date
                /\ rankings_file'.value[j].ranking = Store[i].ranking]_vars

\* a saving call found rows in the store and failed to read or merge them
C22_Witness ==
    /\ Updated
    /\ "Error updating rankings file" \in Range(tracked.value.log)
    /\ tracked.value.trackings > 1

(***************************************************************************)
(* Properties of SerpAnalysisClient.get_serp                               *)
(***************************************************************************)
\* C23 as stated: within one SerpAnalysisClient, once a get_serp lookup
\* with caching enabled has stored a result for a query, every later
\* get_serp call with caching enabled for that identical query is answered
\* from the cache, with a result stored for the query and without a new
\* lookup, whatever other lookups happen in between
C23_SameQuery ==
    [][\A query \in SerpQueries :
          ( /\ \E n \in NumResults : InDict(serp_cache, CacheKey(query, n))
            /\ serp_call'.some
            /\ serp_call'.value.calls = Calls + 1
            /\ serp_call'.value.cache
            /\ serp_call'.value.query = query )
          => /\ serp_issued' = serp_issued
             /\ \E n \in NumResults :
                   /\ InDict(serp_cache, CacheKey(query, n))
                   /\ serp_call'.value.result = GetItem(serp_cache, CacheKey(query, n))]_vars

\* C23 amended: within one SerpAnalysisClient, once a get_serp lookup with
\* caching enabled has stored a result for a query and a num_results,
\* every later get_serp call with caching enabled for that identical query
\* and num_results is answered from the cache with that same result and
\* without a new lookup, whatever other lookups happen in between: a
\* stored result stays stored as it is, and a caching call that finds one
\* returns it and issues nothing
C23_CachedOnce ==
    [][\A i \in 1..Len(serp_cache) :
          /\ InDict(serp_cache', serp_cache[i].key)
          /\ GetItem(serp_cache', serp_cache[i].key) = serp_cache[i].value
          /\ ( /\ serp_call'.some
               /\ serp_call'.value.cache
               /\ CacheKey(serp_call'.value.query, serp_call'.value.num_results)
                     = serp_cache[i].key )
             => /\ serp_call'.value.result = serp_cache[i].value
                /\ serp_issued' = serp_issued]_vars

\* a caching call has been answered for a query stored two calls before,
\* with a lookup of another query in between
C23_Witness ==
    /\ serp_call.some
    /\ serp_call.value.calls = 3
    /\ serp_call.value.cache
    /\ serp_call.value.from_cache
    /\ Len(serp_issued) = 2
    /\ serp_issued[1].query = serp_call.value.query
    /\ serp_issued[1].num_results = serp_call.value.num_results
    /\ serp_issued[2].query # serp_call.value.query

(***************************************************************************)
(* Properties of get_top_content                                           *)
(***************************************************************************)
\* C24: in get_top_content, whatever the interleaving and the order in
\* which the concurrent keyword lookups (3 workers) finish, the keyword
\* list of each page row is the one fetched for the row's own url and
\* keyword_count is its length: the result is fixed by the pages and by
\* what is fetched for each url, not by the scheduling
C24_OwnKeywords ==
    (top_content.some /\ Len(executor.value.top_pages) > 0) =>
        /\ Len(top_content.value) = Len(executor.value.top_pages)
        /\ \A i \in 1..Len(top_content.value) :
              /\ top_content.value[i].url = executor.value.top_pages[i].url
              /\ top_content.value[i].traffic = executor.value.top_pages[i].traffic
              /\ top_content.value[i].keywords
                    = executor.value.fetch[executor.value.top_pages[i].url]
              /\ top_content.value[i].keyword_count
                    = Len(executor.value.fetch[executor.value.top_pages[i].url])

\* the lookups finished in another order than they were submitted in, for
\* pages with different keyword lists
C24_Witness ==
    /\ top_content.some
    /\ Len(executor.value.completed) >= 3
    /\ executor.value.completed[1] = 3
    /\ executor.value.completed[2] = 1
    /\ top_content.value[1].keywords # top_content.value[3].keywords
    /\ top_content.value[1].keyword_count = 10

(***************************************************************************)
(* Properties of fetch_keywords                                            *)
(***************************************************************************)
\* C25: fetch_keywords called with a list of seed keywords returns a
\* keyword set that includes every seed keyword itself, whatever the seed
\* list, and holds each keyword text at most once
C25_SeedsIncluded ==
    fetched.some =>
        /\ \A seed \in Range(fetched.value.seed_keywords) :
              seed \in Range(Col(fetched.value.df, "keyword"))
        /\ \A i, j \in 1..Len(fetched.value.df) :
              fetched.value.df[i].keyword = fetched.value.df[j].keyword => i = j

\* the seeds of the test have been fetched and are in the result
C25_TestWitness ==
    /\ fetched.some
    /\ fetched.value.seed_keywords = << "recruitment", "hiring", "talent acquisition" >>
    /\ \A seed \in Range(fetched.value.seed_keywords) :
          seed \in Range(Col(fetched.value.df, "keyword"))

(***************************************************************************)
(* Properties of the cluster count                                         *)
(***************************************************************************)
\* x held between lo and hi
Clamp(x, lo, hi) == IF x < lo THEN lo ELSE IF x > hi THEN hi ELSE x

C26_LimitWitness ==
    /\ requested.some
    /\ ~requested.value.n_clusters.some
    /\ \/ requested.value.n = 1 /\ requested.value.k = 3
       \/ requested.value.n = 125 /\ requested.value.k = 10

(***************************************************************************)
(* Properties of the mapping of get_top_keywords_by_cluster                *)
(***************************************************************************)
\* C27: get_top_keywords_by_cluster loses no cluster: each distinct cluster
\* id contributes its own entry to the returned mapping, so the mapping
\* has as many entries as there are distinct cluster ids, even when two
\* clusters carry the same cluster_label
C27_NoClusterLost ==
    Selected =>
        Len(top_keywords.value.result) = Cardinality(Range(Col(keywords_df, "cluster")))

\* two clusters with different labels each have their entry
C27_Witness ==
    /\ Selected
    /\ Len(top_keywords.value.result) = 2
    /\ Cardinality(Range(Col(keywords_df, "cluster"))) = 2

(***************************************************************************)
(* Properties of successive cluster_keywords calls                         *)
(***************************************************************************)
\* C28: cluster_keywords leaves the caller's input batch unchanged and
\* returns an independent result: the caller's frame is still the frame of
\* keywords it built, and after a second call on the same input with
\* another method the result of the first call still shows the cluster
\* assignments of the first call
C28_IndependentResult ==
    /\ Len(results) >= 1 => keywords_df = Frame(keywords)
    /\ Len(results) >= 2 => Col(Deref(results[1].ref), "cluster") = results[1].cluster

\* two calls have returned
C28_Witness == Len(results) = 2

(***************************************************************************)
(* Properties of analyze_content_gap when top content cannot be fetched    *)
(***************************************************************************)
\* the domains whose top content the analysis fetches
AnalyzedDomains ==
    {Domain} \cup Range(SubSeq(competitors, 1, Min2(Len(competitors), 3)))

\* C29: analyze_content_gap with a non-empty competitor list never raises
\* when fetching the top content fails for the own domain or for one
\* competitor (get_top_content giving its empty failure result): the
\* failing domain is skipped and the analysis goes on with the others, so
\* each of the other domains is still fetched
C29_FailureSkipped ==
    (gap.some /\ Len(competitors) > 0) =>
        /\ gap.value.outcome = "returned"
        /\ \A d \in AnalyzedDomains :
              Lookup("get_top_pages", d) \in Range(gap.value.lookups)

\* the fetch failed for a competitor and the call has ended
C29_Witness ==
    /\ gap.some
    /\ \E i \in 1..Len(competitors) : gap.value.top_pages[competitors[i]] = "fails"
    /\ gap.value.top_pages[Domain] # "fails"

(***************************************************************************)
(* Properties of DBSCAN clustering on small batches                        *)
(***************************************************************************)
\* C30: with method dbscan (min_samples = 5, a sample counting itself), a
\* batch of fewer than 5 keywords on which the clustering succeeds yields
\* no group at all: every keyword gets the sentinel cluster id -1 and the
\* label "Unclustered"
C30_SmallBatchUnclustered ==
    ( /\ Returned
      /\ call.value.method = "dbscan"
      /\ Len(keywords_df) < 5
      /\ ~EmbeddingFailed
      /\ ~ClusteringFailed ) =>
        \A i \in 1..Len(keywords_df) :
            /\ HasCol("cluster") /\ HasCol("cluster_label")
            /\ keywords_df[i].cluster = -1
            /\ keywords_df[i].cluster_label = "Unclustered"

\* DBSCAN has succeeded on a batch of three keywords
C30_Witness ==
    /\ Returned
    /\ call.value.method = "dbscan"
    /\ Len(keywords_df) = 3
    /\ ~EmbeddingFailed
    /\ ~ClusteringFailed
    /\ \A i \in 1..3 : keywords_df[i].cluster_label = "Unclustered"

\* on five keywords DBSCAN can form a group
C30_GroupWitness ==
    /\ Returned
    /\ call.value.method = "dbscan"
    /\ Len(keywords_df) = 5
    /\ ~ClusteringFailed
    /\ \A i \in 1..5 : keywords_df[i].cluster = 0
====
